---------------------------- MODULE Spec2Model ----------------------------
(***************************************************************************)
(* Cart-to-order pricing and order lifecycle of the takeaway system        *)
(* (src/src/order_manager.py over src/src/storage.py, with the two cart    *)
(* mutations the text front end performs itself, src/src/main.py).         *)
(*                                                                         *)
(* Conventions                                                             *)
(*  - Money is an exact integer number of thousandths of a pound, so       *)
(*    10.99 is 10990.  Every amount the code rounds with round(x, 2) is a  *)
(*    multiple of 10; the only amounts it leaves unrounded are halves of   *)
(*    a total (multiples of 5).  Binary floating point error is not        *)
(*    modelled, except that a value lying exactly between two pennies may  *)
(*    round either way (which way depends on its binary representation).   *)
(*  - Time is an integer number of minutes since Monday 00:00.             *)
(*  - Python objects that are shared by reference are kept in heaps:       *)
(*    cart_objs holds the Cart objects and cart_items the CartItem         *)
(*    objects (a CartItem's uuid names it); storage._carts maps a key to   *)
(*    a Cart object, carts and orders hold sequences of CartItem ids.      *)
(*    Objects nothing refers to any more are dropped from the heaps.       *)
(*  - A Python dict is a function whose domain is the set of its keys.     *)
(*  - None is the string "None" where the other values are strings and -1  *)
(*    where they are times.                                                *)
(*  - Free text is a token: an order note is one of three texts (plain,    *)
(*    with a filtered word, with a phone number); names are left out and   *)
(*    a cancellation reason is "given" or "None".                          *)
(*  - result is what the last call returned.  Every call writes it, so a   *)
(*    step that ends with result.op = "f" is a call of f.                  *)
(*                                                                         *)
(*  - The discount codes are state: the store lets a code be saved again   *)
(*    with another is_active, and create_discount_code adds codes.         *)
(*  - Calls run one at a time, each as one step, except in SpecRace,       *)
(*    where update_order_status is two steps (its check, then its writes)  *)
(*    and calls holds the calls that are between the two.                  *)
(*                                                                         *)
(* The specifications share Init and the actions and differ in the calls   *)
(* they make: SpecCart (every cart mutation, no order), SpecPlace (carts   *)
(* filled by plain additions, every outcome of place_order),               *)
(* SpecLifecycle (orders placed from one cart, then status changes,        *)
(* cancellations and reorders), SpecOrder (one placed or scheduled order   *)
(* under every operation on orders and on the cart it came from),          *)
(* SpecLimit (the cancellation log filling up), SpecMerge (two carts of    *)
(* one item under two customizations, a price change, merge_carts),        *)
(* SpecSchedule (availability schedules and schedule_order), SpecReorder   *)
(* (one order reordered after price changes and deletions), SpecDiscount   *)
(* (a cart with a code while codes are switched on and off), SpecRace      *)
(* (two threads changing the status of one order), SpecModify (scheduled   *)
(* orders rescheduled), SpecStock (the operations that check or move the   *)
(* stock) and SpecCode (codes created and applied to a cart).              *)
(***************************************************************************)
EXTENDS Integers, Sequences, FiniteSets, TLC

VARIABLES
    menu_items,         \* storage._menu_items: item id -> MenuItem
    carts,              \* storage._carts: cart key -> Cart object
    cart_objs,          \* the Cart objects
    cart_items,         \* the CartItem objects, by CartItem.id
    orders,             \* storage._orders: order id -> Order
    customers,          \* storage._customers: customer id -> Customer
    cancellation_logs,  \* storage._cancellation_logs: customer id -> timestamps
    refunds,            \* storage._refunds: order id -> amounts of its Refunds
    discount_codes,     \* storage._discount_codes: code -> DiscountCode
    calls,              \* update_order_status calls past their check: thread
                        \* -> the arguments and the status the check read
    now,                \* datetime.now()
    result              \* what the last call returned

vars == <<menu_items, carts, cart_objs, cart_items, orders, customers,
          cancellation_logs, refunds, discount_codes, calls, now, result>>

-----------------------------------------------------------------------------
(* Bounds of the model *)

MaxLines == 2       \* CartItem objects alive at once
MaxOrders == 2      \* orders ever placed
MaxReorderLines == 2    \* CartItem objects of reorder beyond MaxLines

-----------------------------------------------------------------------------
(* Program constants *)

MAX_CART_ITEMS == 50
MAX_ITEM_QUANTITY == 99
MIN_ORDER_AMOUNT == 10000
VAT_RATE == 20                      \* per cent
MAX_CANCELLATIONS_PER_MONTH == 3
OPENING_HOUR == 11
CLOSING_HOUR == 23
RANDOM_LOW == 1000
RANDOM_HIGH == 9999

Statuses == {"PENDING", "CONFIRMED", "PREPARING", "READY",
             "OUT_FOR_DELIVERY", "DELIVERED", "CANCELLED"}

-----------------------------------------------------------------------------
(* Values the calls are made with *)

ItemIds == {"a", "b"}                \* the catalog of Init
CartItemInputs == {"a", "z"}         \* "z" is in no catalog
CartIds == {"guest", "cust"}         \* keys chosen by callers
ReorderCartIds == {"r1"}             \* keys reorder generates (uuid4)
SessionCartId == "cust"              \* TakeawayApp.current_cart_id
AllCartIds == CartIds \cup ReorderCartIds
CartRefs == 1..Cardinality(AllCartIds)
LineIds == 1..MaxLines
RaceStatuses == {"CONFIRMED", "PREPARING", "CANCELLED"}
Threads == {1, 2}                    \* callers that run at the same time
ReorderLineIds == (MaxLines + 1)..(MaxLines + MaxReorderLines)
OrderIds == 1..MaxOrders
CustomerIds == {"c1", "c2"}
QuantityInputs == {0, 25, 100}          \* add_to_cart
OrderQuantities == {10}                 \* add_to_cart, before an order
NewQuantityInputs == {0, 75, 100}       \* update_cart_item
AddressInputs == {"None", "ZONE_1", "OUT_OF_RANGE"}
PointsInputs == {0, 1000, 10000, 20000}
CodeInputs == {"SAVE10", "NOPE"}
ClockInstants == {600, 720}          \* Monday 10:00 and 12:00
RandomInputs == {RANDOM_LOW, RANDOM_HIGH}
RedeemedPoints == {0, 1000}          \* loyalty points spent on an order
ScheduledTimeInputs == {630, 780}    \* Monday 10:30 and 13:00
NewTimeInputs == {-1, 700}           \* None and Monday 11:40
NoteInputs == {"leave at door", "spam", "call 01234567890"}
RefundInputs == {0, 1, 4, 5000}      \* amounts asked of process_refund
\* None, Monday 11:40, 12:20 and 12:30: modify_scheduled_order
ModifyTimeInputs == {-1, 700, 740, 750}
\* create_discount_code: a code that is too short, 5.00 and 30.00 off,
\* nothing off, 50% and 150% off
DiscountCodeInputs ==
    {<<"OFF", "FIXED_AMOUNT", 5000>>, <<"TAKE5", "FIXED_AMOUNT", 5000>>,
     <<"TAKE30", "FIXED_AMOUNT", 30000>>, <<"ZERO", "FIXED_AMOUNT", 0>>,
     <<"HALF", "PERCENTAGE", 50>>, <<"HUGE", "PERCENTAGE", 150>>}
MergeQuantities == {25}              \* add_to_cart, before a merge
PriceInputs == {400, 1200}           \* prices asked of update_menu_item
\* Monday 10:30 and 13:00, Tuesday 03:00 and 13:00, Tuesday week 13:00
FutureTimeInputs == {630, 780, 1620, 2220, 12300}

-----------------------------------------------------------------------------
(* Helpers *)

Range(s) == {s[i] : i \in DOMAIN s}

Min(x, y) == IF x <= y THEN x ELSE y

Put(f, k, v) == [x \in (DOMAIN f) \cup {k} |-> IF x = k THEN v ELSE f[x]]

Del(f, k) == [x \in (DOMAIN f) \ {k} |-> f[x]]

RECURSIVE SumSeq(_)
SumSeq(s) == IF s = <<>> THEN 0 ELSE Head(s) + SumSeq(Tail(s))

Smallest(S) == CHOOSE x \in S : \A y \in S : x <= y

\* round(n / d, 2) for the exact rational n / d (d > 0): the nearest penny,
\* and both neighbours when n / d lies exactly half way between them.
Round2(n, d) ==
    LET q == n \div (10 * d)
        r == n - q * 10 * d
    IN  IF 2 * r < 10 * d THEN {10 * q}
        ELSE IF 2 * r > 10 * d THEN {10 * (q + 1)}
        ELSE {10 * q, 10 * (q + 1)}

\* datetime.now().hour and the weekday / time of day of a timestamp
HourOf(t) == (t \div 60) % 24
WeekdayOf(t) == (t \div 1440) % 7
TimeOfDay(t) == t % 1440
DateOf(t) == t \div 1440


-----------------------------------------------------------------------------
(* Data model (models.py) *)

\* ItemCustomization(): the defaults of the dataclass
ItemCustomization ==
    [extras |-> <<>>, removed_ingredients |-> <<>>,
     spice_level |-> "MEDIUM", size |-> "medium"]

\* ItemCustomization(size=ItemSize.LARGE)
LargeCustomization == [ItemCustomization EXCEPT !.size = "large"]

\* An Optional[ItemCustomization] is <<>> (None) or <<customization>>
CustomizationInputs == {<<>>, <<ItemCustomization>>}

\* AvailabilitySchedule(day_of_week, start_time, end_time)
AvailabilitySchedule(day_of_week, start_time, end_time) ==
    [day_of_week |-> day_of_week, start_time |-> start_time,
     end_time |-> end_time]

\* The schedules set_availability_schedule is called with: none, Monday
\* 12:00 to 14:00, and that with an overlapping slot
ScheduleInputs ==
    {{}, {AvailabilitySchedule(0, 720, 840)},
     {AvailabilitySchedule(0, 720, 840), AvailabilitySchedule(0, 780, 900)}}

\* The customizations of the lines two carts are merged with
MergeCustomizations == {<<>>, <<LargeCustomization>>}

\* Cart(id=cart_id) / Cart(customer_id=customer_id)
Cart(id, customer_id) ==
    [id |-> id, customer_id |-> customer_id, items |-> <<>>,
     subtotal |-> 0, discount_amount |-> 0, tax_amount |-> 0,
     delivery_fee |-> 0, tip_amount |-> 0, total |-> 0,
     discount_code |-> "None"]

\* MenuItem(...); stock_quantity defaults to 100
MenuItem(price, stock, size_prices) ==
    [price |-> price, stock_quantity |-> stock, is_available |-> TRUE,
     extras |-> <<>>, size_prices |-> size_prices,
     availability_schedule |-> {}]

InitialMenu ==
    [i \in ItemIds |->
        IF i = "a" THEN MenuItem(960, 100, [s \in {"large"} |-> 500])
        ELSE MenuItem(1000, 10, [s \in {} |-> 0])]

\* storage._customers: c1 holds loyalty points, c2 none
InitialCustomers ==
    [c \in CustomerIds |-> [total_points |-> IF c = "c1" THEN 10000 ELSE 0]]

\* storage._discount_codes as create_discount_code has filled it
InitialDiscountCodes ==
    [c \in {"SAVE10"} |->
        [discount_type |-> "PERCENTAGE", value |-> 10,
         min_order_amount |-> 15000, max_discount_amount |-> 0,
         usage_limit |-> 0, times_used |-> 0,
         is_single_use_per_customer |-> FALSE, is_first_order_only |-> FALSE,
         valid_from |-> 0, valid_until |-> 30 * 1440, is_active |-> TRUE]]

-----------------------------------------------------------------------------
(* Pricing *)

\* OrderManager._check_item_availability
_check_item_availability(item, t) ==
    IF ~item.is_available THEN "Item unavailable"
    ELSE IF item.stock_quantity <= 0 THEN "Out of stock"
    ELSE IF item.availability_schedule # {}
            /\ ~\E s \in item.availability_schedule :
                   /\ s.day_of_week = WeekdayOf(t)
                   /\ s.start_time <= TimeOfDay(t)
                   /\ TimeOfDay(t) <= s.end_time
         THEN "Not available at this time"
    ELSE "None"

\* OrderManager._calculate_item_price; c is an Optional[ItemCustomization].
\* Catalog prices are whole pennies, so the final round(price, 2) is exact.
_calculate_item_price(item, c) ==
    IF c = <<>> THEN item.price
    ELSE LET cz == c[1]
             known == {i \in DOMAIN cz.extras :
                          \E e \in DOMAIN item.extras : item.extras[e].id = cz.extras[i]}
             extra_price(i) ==
                 item.extras[Smallest({e \in DOMAIN item.extras :
                                          item.extras[e].id = cz.extras[i]})].price
             ExtrasTotal[S \in SUBSET known] ==
                 IF S = {} THEN 0
                 ELSE LET i == Smallest(S) IN extra_price(i) + ExtrasTotal[S \ {i}]
             size_adj == IF cz.size \in DOMAIN item.size_prices
                         THEN item.size_prices[cz.size] ELSE 0
         IN  item.price + ExtrasTotal[known] + size_adj

\* OrderManager._same_customization; c1 is the customization of a stored
\* line (never None), c2 the Optional[ItemCustomization] of the call
_same_customization(c1, c2) ==
    IF c2 = <<>> THEN FALSE
    ELSE /\ Range(c1.extras) = Range(c2[1].extras)
         /\ Range(c1.removed_ingredients) = Range(c2[1].removed_ingredients)
         /\ c1.size = c2[1].size
         /\ c1.spice_level = c2[1].spice_level

\* OrderManager._calculate_discount: the amounts round(amount, 2) can give
_calculate_discount(subtotal, discount) ==
    IF discount.min_order_amount # 0 /\ subtotal < discount.min_order_amount
    THEN {0}
    ELSE IF discount.discount_type \notin {"PERCENTAGE", "FIXED_AMOUNT"} THEN {0}
    ELSE LET num == IF discount.discount_type = "PERCENTAGE"
                    THEN subtotal * discount.value ELSE discount.value * 100
             capped == IF discount.max_discount_amount # 0
                       THEN Min(num, discount.max_discount_amount * 100) ELSE num
         IN  Round2(capped, 100)

\* sum(ci.line_total for ci in cart.items) over the CartItem heap `lines`
Subtotal(items, lines) ==
    SumSeq([i \in DOMAIN items |-> lines[items[i]].line_total])

\* sum(ci.quantity for ci in cart.items)
TotalQuantity(items, lines) ==
    SumSeq([i \in DOMAIN items |-> lines[items[i]].quantity])

\* round(subtotal - discount + tax + delivery_fee + tip, 2)
CartTotal(subtotal, discount_amount, tax_amount, delivery_fee, tip_amount) ==
    Round2(subtotal - discount_amount + tax_amount + delivery_fee + tip_amount, 1)

\* Faulty variant of _recalculate_cart: the tax is charged on the subtotal
\* before the discount
_recalculate_cart_taxing_gross(cart, lines) ==
    LET subtotal == Subtotal(cart.items, lines)
        known == cart.discount_code \in DOMAIN discount_codes
                 /\ discount_codes[cart.discount_code].is_active
        code == IF cart.discount_code # "None" /\ ~known
                THEN "None" ELSE cart.discount_code
        discounts == IF cart.discount_code = "None" THEN {cart.discount_amount}
                     ELSE IF known
                     THEN _calculate_discount(subtotal, discount_codes[cart.discount_code])
                     ELSE {0}
    IN  UNION {
          UNION {
            { [cart EXCEPT !.subtotal = subtotal, !.discount_amount = d,
                           !.discount_code = code, !.tax_amount = t,
                           !.total = tot]
              : tot \in CartTotal(subtotal, d, t, cart.delivery_fee, cart.tip_amount) }
            : t \in Round2(subtotal * VAT_RATE, 100) }
          : d \in discounts }

\* Faulty variant of _recalculate_cart: a code that is unknown or inactive
\* stays on the cart
_recalculate_cart_keeping_code(cart, lines) ==
    LET subtotal == Subtotal(cart.items, lines)
        known == cart.discount_code \in DOMAIN discount_codes
                 /\ discount_codes[cart.discount_code].is_active
        discounts == IF cart.discount_code = "None" THEN {cart.discount_amount}
                     ELSE IF known
                     THEN _calculate_discount(subtotal, discount_codes[cart.discount_code])
                     ELSE {0}
    IN  UNION {
          UNION {
            { [cart EXCEPT !.subtotal = subtotal, !.discount_amount = d,
                           !.tax_amount = t, !.total = tot]
              : tot \in CartTotal(subtotal, d, t, cart.delivery_fee, cart.tip_amount) }
            : t \in Round2((subtotal - d) * VAT_RATE, 100) }
          : d \in discounts }

\* OrderManager._recalculate_cart: the carts the recomputation can leave
_recalculate_cart(cart, lines) ==
    LET subtotal == Subtotal(cart.items, lines)
        known == cart.discount_code \in DOMAIN discount_codes
                 /\ discount_codes[cart.discount_code].is_active
        code == IF cart.discount_code # "None" /\ ~known
                THEN "None" ELSE cart.discount_code
        discounts == IF cart.discount_code = "None" THEN {cart.discount_amount}
                     ELSE IF known
                     THEN _calculate_discount(subtotal, discount_codes[cart.discount_code])
                     ELSE {0}
    IN  UNION {
          UNION {
            { [cart EXCEPT !.subtotal = subtotal, !.discount_amount = d,
                           !.discount_code = code, !.tax_amount = t,
                           !.total = tot]
              : tot \in CartTotal(subtotal, d, t, cart.delivery_fee, cart.tip_amount) }
            : t \in Round2((subtotal - d) * VAT_RATE, 100) }
          : d \in discounts }

-----------------------------------------------------------------------------
(* The store: references, garbage and fresh identifiers *)

\* The Cart object storage.get_cart(cart_id) returns, as <<>> or <<ref>>
get_cart(cart_id) ==
    IF cart_id \in DOMAIN carts THEN <<carts[cart_id]>> ELSE <<>>

\* The cart keys a caller can name: its own, and those reorder has made
KnownCartIds == CartIds \cup DOMAIN carts

FreeLineIds == LineIds \ DOMAIN cart_items
FreeCartRefs == CartRefs \ DOMAIN cart_objs

\* The next state of the store: nc, nh, nl, no are storage._carts, the Cart
\* objects, the CartItem objects and storage._orders as the call leaves them;
\* objects that nothing refers to any more are dropped.
Stored(nc, nh, nl, no) ==
    LET live == {nc[k] : k \in DOMAIN nc}
        held == UNION {Range(nh[r].items) : r \in live}
                \cup UNION {Range(no[o].items) : o \in DOMAIN no}
    IN  /\ carts' = nc
        /\ cart_objs' = [r \in live |-> nh[r]]
        /\ cart_items' = [l \in held |-> nl[l]]
        /\ orders' = no

\* What a call returns: the success flag, the error, the part of the
\* payload the properties read, and the items it reports as left out
Return(op, success, error, value) ==
    result' = [op |-> op, success |-> success, error |-> error,
               value |-> value, report |-> <<>>]

Fail(op, error) ==
    /\ Return(op, FALSE, error, 0)
    /\ UNCHANGED <<menu_items, carts, cart_objs, cart_items, orders,
                   customers, cancellation_logs, refunds, now, discount_codes, calls>>

-----------------------------------------------------------------------------
(* Cart engine *)

\* Faulty variant of exceeds_cart_limit: the limit is looked at only for a
\* quantity that is valid
exceeds_cart_limit_for_valid_quantity(total_items, quantity) ==
    /\ 1 <= quantity
    /\ quantity <= MAX_ITEM_QUANTITY
    /\ total_items + quantity > MAX_CART_ITEMS

\* The cart size check of add_to_cart, its first check
exceeds_cart_limit(total_items, quantity) ==
    total_items + quantity > MAX_CART_ITEMS

\* Faulty variant of add_to_cart_rejected: the cart the call has made for a
\* key without one is stored before the call is refused
add_to_cart_rejected_after_creating(cart_id, error) ==
    /\ Return("add_to_cart", FALSE, error, 0)
    /\ IF cart_id \in DOMAIN carts
       THEN UNCHANGED <<carts, cart_objs, cart_items, orders>>
       ELSE /\ FreeCartRefs # {}
            /\ Stored(Put(carts, cart_id, Smallest(FreeCartRefs)),
                      Put(cart_objs, Smallest(FreeCartRefs), Cart(cart_id, "None")),
                      cart_items, orders)
    /\ UNCHANGED <<menu_items, customers, cancellation_logs, refunds, now,
                   discount_codes, calls>>

\* A call of add_to_cart that is refused: nothing is stored
add_to_cart_rejected(cart_id, error) == Fail("add_to_cart", error)

\* OrderManager.add_to_cart
add_to_cart(cart_id, item_id, quantity, customization) ==
    LET op == "add_to_cart"
        got == get_cart(cart_id)
        cart == IF got # <<>> THEN cart_objs[got[1]] ELSE Cart(cart_id, "None")
        total_items == TotalQuantity(cart.items, cart_items)
    IN
    IF exceeds_cart_limit(total_items, quantity)
    THEN add_to_cart_rejected(cart_id, "Max 50 items")
    ELSE IF quantity < 1 \/ quantity > MAX_ITEM_QUANTITY
    THEN add_to_cart_rejected(cart_id, "Invalid quantity (1-99)")
    ELSE IF item_id \notin DOMAIN menu_items
    THEN add_to_cart_rejected(cart_id, "Item not found")
    ELSE IF ~menu_items[item_id].is_available
    THEN add_to_cart_rejected(cart_id, "Item not available")
    ELSE IF menu_items[item_id].stock_quantity < quantity
    THEN add_to_cart_rejected(cart_id, "Only N in stock")
    ELSE IF _check_item_availability(menu_items[item_id], now) # "None"
    THEN add_to_cart_rejected(cart_id, _check_item_availability(menu_items[item_id], now))
    ELSE
    LET item == menu_items[item_id]
        unit_price == _calculate_item_price(item, customization)
        matches == {i \in DOMAIN cart.items :
                       /\ cart_items[cart.items[i]].menu_item_id = item_id
                       /\ _same_customization(
                              cart_items[cart.items[i]].customization, customization)}
    IN
    IF matches # {} /\ cart_items[cart.items[Smallest(matches)]].quantity + quantity
                         > MAX_ITEM_QUANTITY
    THEN add_to_cart_rejected(cart_id, "Max quantity exceeded")
    ELSE
        /\ matches # {} \/ FreeLineIds # {}
        /\ got # <<>> \/ FreeCartRefs # {}
        /\ LET ref == IF got # <<>> THEN got[1] ELSE Smallest(FreeCartRefs)
               line == IF matches # {} THEN cart.items[Smallest(matches)]
                       ELSE Smallest(FreeLineIds)
               new_qty == IF matches # {}
                          THEN cart_items[line].quantity + quantity ELSE quantity
               nl == IF matches # {}
                     THEN [cart_items EXCEPT ![line].quantity = new_qty,
                                             ![line].line_total = unit_price * new_qty]
                     ELSE Put(cart_items, line,
                              [menu_item_id |-> item_id, quantity |-> quantity,
                               customization |-> IF customization = <<>>
                                                 THEN ItemCustomization
                                                 ELSE customization[1],
                               unit_price |-> unit_price,
                               line_total |-> unit_price * quantity])
               appended == IF matches # {} THEN cart
                           ELSE [cart EXCEPT !.items = Append(@, line)]
           IN  \E nc \in _recalculate_cart(appended, nl) :
                   /\ Stored(Put(carts, nc.id, ref), Put(cart_objs, ref, nc), nl, orders)
                   /\ Return(op, TRUE, "None", line)
        /\ UNCHANGED <<menu_items, customers, cancellation_logs, refunds, now, discount_codes, calls>>

\* Faulty variant of stock_below: the stock is not looked at
stock_below_unchecked(item_id, quantity) == FALSE

\* The stock check of update_cart_item: the item is in the catalog and has
\* less than the quantity in stock
stock_below(item_id, quantity) ==
    /\ item_id \in DOMAIN menu_items
    /\ menu_items[item_id].stock_quantity < quantity

\* OrderManager.update_cart_item; quantity is <<>> (None) or <<q>>
update_cart_item(cart_id, cart_item_id, quantity) ==
    LET op == "update_cart_item"
        got == get_cart(cart_id)
    IN
    IF got = <<>> THEN Fail(op, "Cart not found")
    ELSE
    LET ref == got[1]
        cart == cart_objs[ref]
    IN
    IF cart_item_id \notin Range(cart.items)
    THEN Fail(op, "Item not in cart")
    ELSE IF quantity # <<>> /\ (quantity[1] < 1 \/ quantity[1] > MAX_ITEM_QUANTITY)
    THEN Fail(op, "Invalid quantity")
    ELSE IF /\ quantity # <<>>
            /\ stock_below(cart_items[cart_item_id].menu_item_id, quantity[1])
    THEN Fail(op, "Only N available")
    ELSE
        LET nl == IF quantity = <<>> THEN cart_items
                  ELSE [cart_items EXCEPT
                           ![cart_item_id].quantity = quantity[1],
                           ![cart_item_id].line_total =
                               cart_items[cart_item_id].unit_price * quantity[1]]
        IN  /\ \E nc \in _recalculate_cart(cart, nl) :
                   Stored(Put(carts, nc.id, ref), Put(cart_objs, ref, nc), nl, orders)
            /\ Return(op, TRUE, "None", cart_item_id)
            /\ UNCHANGED <<menu_items, customers, cancellation_logs, refunds, now, discount_codes, calls>>

\* OrderManager.remove_from_cart
remove_from_cart(cart_id, cart_item_id) ==
    LET op == "remove_from_cart"
        got == get_cart(cart_id)
    IN
    IF got = <<>> THEN Fail(op, "Cart not found")
    ELSE
        LET ref == got[1]
            cart == [cart_objs[ref] EXCEPT
                        !.items = SelectSeq(@, LAMBDA l : l # cart_item_id)]
        IN  /\ \E nc \in _recalculate_cart(cart, cart_items) :
                   Stored(Put(carts, nc.id, ref), Put(cart_objs, ref, nc),
                          cart_items, orders)
            /\ Return(op, TRUE, "None", cart_item_id)
            /\ UNCHANGED <<menu_items, customers, cancellation_logs, refunds, now, discount_codes, calls>>

\* Faulty variant of Cleared: the cart keeps its list of lines
Cleared_keeping_items(cart) ==
    [cart EXCEPT !.subtotal = 0, !.tax_amount = 0, !.total = 0,
                 !.discount_amount = 0]

\* The Cart object as OrderManager.clear_cart leaves it
Cleared(cart) ==
    [cart EXCEPT !.items = <<>>, !.subtotal = 0, !.tax_amount = 0,
                 !.total = 0, !.discount_amount = 0]

\* OrderManager.clear_cart
clear_cart(cart_id) ==
    LET op == "clear_cart"
        got == get_cart(cart_id)
    IN
    IF got = <<>> THEN Fail(op, "Cart not found")
    ELSE
        LET ref == got[1]
            nc == Cleared(cart_objs[ref])
        IN  /\ Stored(Put(carts, nc.id, ref), Put(cart_objs, ref, nc),
                      cart_items, orders)
            /\ Return(op, TRUE, "None", 0)
            /\ UNCHANGED <<menu_items, customers, cancellation_logs, refunds, now, discount_codes, calls>>

\* Faulty variant of merged_quantity: the sum without the cap
merged_quantity_uncapped(existing, added) == existing + added

\* min(existing.quantity + item.quantity, self.MAX_ITEM_QUANTITY)
merged_quantity(existing, added) == Min(existing + added, MAX_ITEM_QUANTITY)

\* The loop of OrderManager.merge_carts from the i-th guest line on: the
\* customer cart's item list and the CartItem objects it leaves
RECURSIVE MergeItems(_, _, _, _)
MergeItems(guest_items, i, customer_items, lines) ==
    IF i > Len(guest_items) THEN [items |-> customer_items, lines |-> lines]
    ELSE
        LET item == guest_items[i]
            same == {j \in DOMAIN customer_items :
                        lines[customer_items[j]].menu_item_id = lines[item].menu_item_id}
        IN  IF same # {}
            THEN LET existing == customer_items[Smallest(same)]
                     q == merged_quantity(lines[existing].quantity, lines[item].quantity)
                 IN  MergeItems(guest_items, i + 1, customer_items,
                                [lines EXCEPT ![existing].quantity = q,
                                              ![existing].line_total =
                                                  lines[existing].unit_price * q])
            ELSE MergeItems(guest_items, i + 1, Append(customer_items, item), lines)

\* OrderManager.merge_carts
merge_carts(guest_cart_id, customer_cart_id) ==
    LET op == "merge_carts"
        guest == get_cart(guest_cart_id)
        customer == get_cart(customer_cart_id)
    IN
    IF guest = <<>>
    THEN /\ Return(op, TRUE, "None", 0)
         /\ UNCHANGED <<menu_items, carts, cart_objs, cart_items, orders,
                        customers, cancellation_logs, refunds, now, discount_codes, calls>>
    ELSE IF customer = <<>>
    THEN /\ Stored(Put(carts, customer_cart_id, guest[1]),
                   [cart_objs EXCEPT ![guest[1]].id = customer_cart_id],
                   cart_items, orders)
         /\ Return(op, TRUE, "None", 0)
         /\ UNCHANGED <<menu_items, customers, cancellation_logs, refunds, now, discount_codes, calls>>
    ELSE
        LET gref == guest[1]
            cref == customer[1]
            m == MergeItems(cart_objs[gref].items, 1, cart_objs[cref].items, cart_items)
            merged == [cart_objs[cref] EXCEPT !.items = m.items]
        IN  /\ \E nc \in _recalculate_cart(merged, m.lines) :
                   Stored(Del(Put(carts, nc.id, cref), guest_cart_id),
                          Put(cart_objs, cref, nc), m.lines, orders)
            /\ Return(op, TRUE, "None", 0)
            /\ UNCHANGED <<menu_items, customers, cancellation_logs, refunds, now, discount_codes, calls>>

-----------------------------------------------------------------------------
(* The cart mutations of the text front end (main.py) *)

\* PaymentDeliveryManager.validate_discount_code(code, order_subtotal) at
\* time t: whether the code is accepted, the discounts round(amount, 2) can
\* give, and the error
validate_discount_code(code, order_subtotal, t) ==
    LET no(error) == [valid |-> FALSE, discount |-> {0}, error |-> error]
    IN  IF code \notin DOMAIN discount_codes THEN no("Invalid code")
        ELSE
        LET discount == discount_codes[code]
            num == IF discount.discount_type = "PERCENTAGE"
                   THEN order_subtotal * discount.value
                   ELSE IF discount.discount_type = "FIXED_AMOUNT"
                   THEN discount.value * 100 ELSE 0
            capped == IF discount.max_discount_amount # 0
                      THEN Min(num, discount.max_discount_amount * 100) ELSE num
        IN  IF ~discount.is_active THEN no("Code inactive")
            ELSE IF discount.valid_from > t THEN no("Code not yet valid")
            ELSE IF discount.valid_until < t THEN no("Code expired")
            ELSE IF discount.usage_limit > 0
                    /\ discount.times_used >= discount.usage_limit
            THEN no("Usage limit reached")
            ELSE IF discount.is_first_order_only THEN no("First order only")
            ELSE IF discount.min_order_amount # 0
                    /\ order_subtotal < discount.min_order_amount
            THEN no("Min order")
            ELSE [valid |-> TRUE, discount |-> Round2(capped, 100),
                  error |-> "None"]

\* TakeawayApp._view_cart, choice 3: apply a discount code to the cart
_view_cart(cart_id, code) ==
    LET op == "_view_cart"
        got == get_cart(cart_id)
    IN
    IF got = <<>> \/ cart_objs[got[1]].items = <<>>
    THEN Fail(op, "Your cart is empty")
    ELSE
    LET ref == got[1]
        cart == cart_objs[ref]
        v == validate_discount_code(code, cart.subtotal, now)
    IN
    IF ~v.valid THEN Fail(op, v.error)
    ELSE /\ \E d \in v.discount :
                LET nc == [cart EXCEPT !.discount_code = code,
                                       !.discount_amount = d]
                IN  Stored(Put(carts, nc.id, ref), Put(cart_objs, ref, nc),
                           cart_items, orders)
         /\ Return(op, TRUE, "None", 0)
         /\ UNCHANGED <<menu_items, customers, cancellation_logs, refunds, now, discount_codes, calls>>

\* PaymentDeliveryManager.calculate_delivery_fee for an address in `zone`
\* at time t, in fair weather: <<>> when it fails, <<fee>> otherwise
calculate_delivery_fee(zone, order_subtotal, t) ==
    IF zone \in {"None", "OUT_OF_RANGE"} THEN <<>>
    ELSE IF order_subtotal >= 30000 THEN <<0>>
    ELSE LET base_fee == CASE zone = "ZONE_1" -> 2000
                           [] zone = "ZONE_2" -> 3500
                           [] OTHER -> 5000
             peak == IF 18 <= HourOf(t) /\ HourOf(t) < 21 THEN 1500 ELSE 0
         IN  <<base_fee + peak>>

\* TakeawayApp._checkout up to its confirmation prompt: the delivery fee is
\* put on the cart and the cart recomputed.  Answering "y" continues with
\* place_order.
_checkout(cart_id, delivery_address) ==
    LET op == "_checkout"
        got == get_cart(cart_id)
    IN
    IF got = <<>> \/ cart_objs[got[1]].items = <<>>
    THEN Fail(op, "Your cart is empty")
    ELSE IF delivery_address = "None"
    THEN Fail(op, "Checkout cancelled")
    ELSE
    LET ref == got[1]
        cart == cart_objs[ref]
        fee == calculate_delivery_fee(delivery_address, cart.subtotal, now)
    IN
    IF fee = <<>> THEN Fail(op, "Outside delivery area")
    ELSE /\ \E nc \in _recalculate_cart([cart EXCEPT !.delivery_fee = fee[1]],
                                        cart_items) :
                Stored(carts, Put(cart_objs, ref, nc), cart_items, orders)
         /\ Return(op, TRUE, "None", fee[1])
         /\ UNCHANGED <<menu_items, customers, cancellation_logs, refunds, now, discount_codes, calls>>

-----------------------------------------------------------------------------
(* Placing an order *)

\* OrderManager._is_restaurant_open
_is_restaurant_open(t) == OPENING_HOUR <= HourOf(t) /\ HourOf(t) < CLOSING_HOUR

\* OrderManager._generate_order_number: the date and the random.randint draw
_generate_order_number(t, rnd) == <<DateOf(t), rnd>>

\* OrderManager._estimate_delivery_time at time t
_estimate_delivery_time(order, lines, t) ==
    LET item_count == TotalQuantity(order.items, lines)
        zone_time == IF order.delivery_address = "None" THEN 0
                     ELSE CASE order.delivery_address = "ZONE_1" -> 10
                            [] order.delivery_address = "ZONE_2" -> 20
                            [] order.delivery_address = "ZONE_3" -> 30
                            [] OTHER -> 15
        peak == IF 18 <= HourOf(t) /\ HourOf(t) <= 21 THEN 15 ELSE 0
    IN  t + 30 + (item_count \div 3) * 5 + zone_time + peak

\* prep of PaymentDeliveryManager.estimate_delivery_time: the base
\* preparation time of an order of order_size items, in minutes
base_prep_time(order_size) ==
    IF order_size <= 3 THEN 15
    ELSE IF order_size <= 6 THEN 25
    ELSE IF order_size <= 10 THEN 35
    ELSE 45

\* travel_time of PaymentDeliveryManager.estimate_delivery_time
travel_time(delivery_zone) ==
    CASE delivery_zone = "ZONE_1" -> 10
      [] delivery_zone = "ZONE_2" -> 20
      [] delivery_zone = "ZONE_3" -> 30
      [] OTHER -> 20

\* Faulty variant of reserve_stock: an item whose stock runs out stays
\* available
reserve_stock_staying_available(menu, item_id, quantity) ==
    IF item_id \notin DOMAIN menu THEN menu
    ELSE [menu EXCEPT ![item_id].stock_quantity = @ - quantity]

\* Storage.reserve_stock on the catalog `menu`
reserve_stock(menu, item_id, quantity) ==
    IF item_id \notin DOMAIN menu THEN menu
    ELSE LET left == menu[item_id].stock_quantity - quantity
         IN  [menu EXCEPT ![item_id].stock_quantity = left,
                          ![item_id].is_available = IF left <= 0 THEN FALSE ELSE @]

\* for ci in cart.items: self.storage.reserve_stock(...), from the i-th line on
RECURSIVE ReserveAll(_, _, _, _)
ReserveAll(menu, items, lines, i) ==
    IF i > Len(items) THEN menu
    ELSE ReserveAll(reserve_stock(menu, lines[items[i]].menu_item_id,
                                  lines[items[i]].quantity),
                    items, lines, i + 1)

\* The re-validation of one cart line in place_order
item_error(line) ==
    IF line.menu_item_id \notin DOMAIN menu_items THEN "Item no longer exists"
    ELSE IF ~menu_items[line.menu_item_id].is_available
    THEN "Item is no longer available"
    ELSE IF menu_items[line.menu_item_id].stock_quantity < line.quantity
    THEN "Insufficient stock"
    ELSE "None"

\* Faulty variant of place_order_error: the address is checked before the
\* minimum order amount
place_order_error_address_first(cart_id, delivery_address) ==
    LET got == get_cart(cart_id)
    IN  IF got = <<>> \/ cart_objs[got[1]].items = <<>> THEN "Cart is empty"
        ELSE
        LET cart == cart_objs[got[1]]
            bad == {i \in DOMAIN cart.items :
                       item_error(cart_items[cart.items[i]]) # "None"}
        IN  IF delivery_address = "None" THEN "Delivery address required"
            ELSE IF delivery_address = "OUT_OF_RANGE" THEN "Outside delivery area"
            ELSE IF cart.subtotal < MIN_ORDER_AMOUNT THEN "Minimum order"
            ELSE IF bad # {}
            THEN item_error(cart_items[cart.items[Smallest(bad)]])
            ELSE IF ~_is_restaurant_open(now) THEN "Restaurant is closed"
            ELSE "None"

\* The checks of place_order in the order the code makes them: the error of
\* the first one that fails, "None" when the order is accepted
place_order_error(cart_id, delivery_address) ==
    LET got == get_cart(cart_id)
    IN  IF got = <<>> \/ cart_objs[got[1]].items = <<>> THEN "Cart is empty"
        ELSE
        LET cart == cart_objs[got[1]]
            bad == {i \in DOMAIN cart.items :
                       item_error(cart_items[cart.items[i]]) # "None"}
        IN  IF cart.subtotal < MIN_ORDER_AMOUNT THEN "Minimum order"
            ELSE IF delivery_address = "None" THEN "Delivery address required"
            ELSE IF delivery_address = "OUT_OF_RANGE" THEN "Outside delivery area"
            ELSE IF bad # {}
            THEN item_error(cart_items[cart.items[Smallest(bad)]])
            ELSE IF ~_is_restaurant_open(now) THEN "Restaurant is closed"
            ELSE "None"

\* Faulty variant of place_order_rejected: the stock of the cart's lines is
\* reserved before the rejection
place_order_rejected_after_reserving(cart_id, error) ==
    /\ Return("place_order", FALSE, error, 0)
    /\ menu_items' =
         IF get_cart(cart_id) = <<>> THEN menu_items
         ELSE ReserveAll(menu_items, cart_objs[get_cart(cart_id)[1]].items,
                         cart_items, 1)
    /\ UNCHANGED <<carts, cart_objs, cart_items, orders, customers,
                   cancellation_logs, refunds, now, discount_codes, calls>>

\* An early return of place_order: nothing has been written yet
place_order_rejected(cart_id, error) ==
    Fail("place_order", error)

\* Faulty variant of points_discount: no cap at half of the cart total
points_discount_uncapped(loyalty_points_to_use, balance, total) ==
    IF loyalty_points_to_use > 0 /\ balance >= loyalty_points_to_use
    THEN loyalty_points_to_use * 10
    ELSE 0

\* points_discount of place_order for a cart total and a points balance
points_discount(loyalty_points_to_use, balance, total) ==
    IF loyalty_points_to_use > 0 /\ balance >= loyalty_points_to_use
    THEN Min(loyalty_points_to_use * 10, total \div 2)
    ELSE 0

\* order = Order(...) of place_order with its first status_history entry; the
\* fields place_order does not pass keep the defaults of the Order dataclass
PlacedOrder(cart, customer_id, delivery_address, discount, rnd, total) ==
    [order_number |-> _generate_order_number(now, rnd),
     customer_id |-> customer_id,
     items |-> cart.items,
     delivery_address |-> delivery_address,
     subtotal |-> cart.subtotal,
     discount_amount |-> cart.discount_amount + discount,
     tax_amount |-> cart.tax_amount,
     delivery_fee |-> cart.delivery_fee,
     tip_amount |-> cart.tip_amount,
     total |-> total,
     discount_code_used |-> cart.discount_code,
     loyalty_points_used |-> discount \div 10,
     status |-> "PENDING",
     status_history |-> <<[status |-> "PENDING", timestamp |-> now]>>,
     payment_status |-> "pending",
     is_scheduled |-> FALSE,
     scheduled_for |-> -1,
     estimated_delivery_time |-> -1,
     actual_delivery_time |-> -1,
     order_notes |-> "",
     cancellation_reason |-> "None",
     refund_amount |-> 0]

\* OrderManager.place_order; payment_method is stored and never read
place_order(cart_id, customer_id, delivery_address, loyalty_points_to_use) ==
    LET error == place_order_error(cart_id, delivery_address)
    IN
    IF error # "None"
    THEN place_order_rejected(cart_id, error)
    ELSE
    LET ref == get_cart(cart_id)[1]
        cart == cart_objs[ref]
        balance == IF customer_id \in DOMAIN customers
                   THEN customers[customer_id].total_points ELSE -1
        discount == points_discount(loyalty_points_to_use, balance, cart.total)
        id == Smallest(OrderIds \ DOMAIN orders)
        cleared == Cleared(cart)
    IN  /\ OrderIds \ DOMAIN orders # {}
        /\ \E rnd \in RandomInputs, total \in Round2(cart.total - discount, 1) :
             LET order == PlacedOrder(cart, customer_id, delivery_address,
                                      discount, rnd, total)
                 saved == [order EXCEPT !.estimated_delivery_time =
                              _estimate_delivery_time(order, cart_items, now)]
             IN  /\ Stored(Put(carts, cleared.id, ref), Put(cart_objs, ref, cleared),
                           cart_items, Put(orders, id, saved))
                 /\ Return("place_order", TRUE, "None", id)
        /\ menu_items' = ReserveAll(menu_items, cart.items, cart_items, 1)
        /\ UNCHANGED <<customers, cancellation_logs, refunds, now, discount_codes, calls>>

-----------------------------------------------------------------------------
(* Order lifecycle *)

\* Faulty variant of valid_transitions: an order that is READY can still be
\* cancelled
valid_transitions_cancelling_ready(status) ==
    CASE status = "PENDING" -> {"CONFIRMED", "CANCELLED"}
      [] status = "CONFIRMED" -> {"PREPARING", "CANCELLED"}
      [] status = "PREPARING" -> {"READY", "CANCELLED"}
      [] status = "READY" -> {"OUT_FOR_DELIVERY", "CANCELLED"}
      [] status = "OUT_FOR_DELIVERY" -> {"DELIVERED"}
      [] OTHER -> {}

\* Faulty variant of valid_transitions: a delivered order can be reopened
valid_transitions_reopening(status) ==
    CASE status = "PENDING" -> {"CONFIRMED", "CANCELLED"}
      [] status = "CONFIRMED" -> {"PREPARING", "CANCELLED"}
      [] status = "PREPARING" -> {"READY", "CANCELLED"}
      [] status = "READY" -> {"OUT_FOR_DELIVERY"}
      [] status = "OUT_FOR_DELIVERY" -> {"DELIVERED"}
      [] status = "DELIVERED" -> {"PENDING"}
      [] OTHER -> {}

\* valid_transitions of update_order_status
valid_transitions(status) ==
    CASE status = "PENDING" -> {"CONFIRMED", "CANCELLED"}
      [] status = "CONFIRMED" -> {"PREPARING", "CANCELLED"}
      [] status = "PREPARING" -> {"READY", "CANCELLED"}
      [] status = "READY" -> {"OUT_FOR_DELIVERY"}
      [] status = "OUT_FOR_DELIVERY" -> {"DELIVERED"}
      [] OTHER -> {}

\* Faulty variant of update_order_status: the new status is not appended to
\* the status history
update_order_status_without_history(order_id, new_status) ==
    LET op == "update_order_status"
    IN
    IF order_id \notin DOMAIN orders THEN Fail(op, "Order not found")
    ELSE IF new_status \notin valid_transitions(orders[order_id].status)
    THEN Fail(op, "Cannot change status")
    ELSE
    LET order == orders[order_id]
        moved == [order EXCEPT
                    !.status = new_status,
                    !.actual_delivery_time =
                        IF new_status = "DELIVERED" THEN now ELSE @]
        saved == IF new_status \in {"CONFIRMED", "PREPARING"}
                 THEN [moved EXCEPT !.estimated_delivery_time =
                          _estimate_delivery_time(moved, cart_items, now)]
                 ELSE moved
    IN  /\ Stored(carts, cart_objs, cart_items, Put(orders, order_id, saved))
        /\ Return(op, TRUE, "None", order_id)
        /\ UNCHANGED <<menu_items, customers, cancellation_logs, refunds, now, discount_codes, calls>>

\* OrderManager.update_order_status
update_order_status(order_id, new_status) ==
    LET op == "update_order_status"
    IN
    IF order_id \notin DOMAIN orders THEN Fail(op, "Order not found")
    ELSE IF new_status \notin valid_transitions(orders[order_id].status)
    THEN Fail(op, "Cannot change status")
    ELSE
    LET order == orders[order_id]
        moved == [order EXCEPT
                    !.status = new_status,
                    !.status_history =
                        Append(@, [status |-> new_status, timestamp |-> now]),
                    !.actual_delivery_time =
                        IF new_status = "DELIVERED" THEN now ELSE @]
        saved == IF new_status \in {"CONFIRMED", "PREPARING"}
                 THEN [moved EXCEPT !.estimated_delivery_time =
                          _estimate_delivery_time(moved, cart_items, now)]
                 ELSE moved
    IN  /\ Stored(carts, cart_objs, cart_items, Put(orders, order_id, saved))
        /\ Return(op, TRUE, "None", order_id)
        /\ UNCHANGED <<menu_items, customers, cancellation_logs, refunds, now, discount_codes, calls>>

\* update_order_status run by thread th up to the end of its validity check:
\* it returns when the order is unknown or the transition is not allowed,
\* otherwise it goes on holding the status it read.  Nothing in the code
\* keeps another call from running before it writes.
update_order_status_check(th, order_id, new_status) ==
    LET op == "update_order_status"
    IN  /\ th \notin DOMAIN calls
        /\ IF order_id \notin DOMAIN orders THEN Fail(op, "Order not found")
           ELSE IF new_status \notin valid_transitions(orders[order_id].status)
           THEN Fail(op, "Cannot change status")
           ELSE /\ calls' = Put(calls, th,
                                [order_id |-> order_id, new_status |-> new_status,
                                 status |-> orders[order_id].status])
                /\ UNCHANGED <<menu_items, carts, cart_objs, cart_items, orders,
                               customers, cancellation_logs, refunds,
                               discount_codes, now, result>>

\* The rest of update_order_status for thread th, from `order.status =
\* new_status` to the return: the order is written as it is now
update_order_status_write(th) ==
    /\ th \in DOMAIN calls
    /\ LET order == orders[calls[th].order_id]
           new_status == calls[th].new_status
           moved == [order EXCEPT
                       !.status = new_status,
                       !.status_history =
                           Append(@, [status |-> new_status, timestamp |-> now]),
                       !.actual_delivery_time =
                           IF new_status = "DELIVERED" THEN now ELSE @]
           saved == IF new_status \in {"CONFIRMED", "PREPARING"}
                    THEN [moved EXCEPT !.estimated_delivery_time =
                             _estimate_delivery_time(moved, cart_items, now)]
                    ELSE moved
       IN  /\ Stored(carts, cart_objs, cart_items,
                     Put(orders, calls[th].order_id, saved))
           /\ Return("update_order_status", TRUE, "None", calls[th].order_id)
    /\ calls' = Del(calls, th)
    /\ UNCHANGED <<menu_items, customers, cancellation_logs, refunds, now,
                   discount_codes>>

\* Storage.log_cancellation, for as long as the log of the customer is under
\* the monthly limit; the log keeps the timestamp of each entry
log_cancellation(order_id, customer_id) ==
    LET log == IF customer_id \in DOMAIN cancellation_logs
               THEN cancellation_logs[customer_id] ELSE <<>>
    IN  /\ Len(log) < MAX_CANCELLATIONS_PER_MONTH
        /\ cancellation_logs' = Put(cancellation_logs, customer_id,
                                    Append(log, now))
        /\ Return("log_cancellation", TRUE, "None", 0)
        /\ UNCHANGED <<menu_items, carts, cart_objs, cart_items, orders,
                       customers, refunds, now, discount_codes, calls>>

\* Variant of get_customer_cancellations in which storage.py imports
\* timedelta: the entries of the customer's log are returned
get_customer_cancellations_with_timedelta(customer_id, days) ==
    [raised |-> "None",
     logs |-> IF customer_id \in DOMAIN cancellation_logs
              THEN cancellation_logs[customer_id] ELSE <<>>]

\* Storage.get_customer_cancellations: its first statement evaluates
\* timedelta(days=days), a name storage.py never imports, so the call raises
\* NameError before it reads the log
get_customer_cancellations(customer_id, days) ==
    [raised |-> "NameError", logs |-> <<>>]

\* Storage.release_stock on the catalog `menu`
release_stock(menu, item_id, quantity) ==
    IF item_id \notin DOMAIN menu THEN menu
    ELSE [menu EXCEPT ![item_id].stock_quantity = @ + quantity]

\* for ci in order.items: self.storage.release_stock(...), from the i-th on
RECURSIVE ReleaseAll(_, _, _, _)
ReleaseAll(menu, items, lines, i) ==
    IF i > Len(items) THEN menu
    ELSE ReleaseAll(release_stock(menu, lines[items[i]].menu_item_id,
                                  lines[items[i]].quantity),
                    items, lines, i + 1)

\* refund_percentage of cancel_order; -1 where the status cannot be cancelled
refund_percentage(status) ==
    CASE status = "PENDING" -> 100
      [] status = "CONFIRMED" -> 100
      [] status = "PREPARING" -> 50
      [] OTHER -> -1

\* Faulty variant of cancel_order_rejected: the stock of the order's lines is
\* released before the rejection
cancel_order_rejected_after_release(order_id, error) ==
    /\ Return("cancel_order", FALSE, error, 0)
    /\ menu_items' =
         IF order_id \notin DOMAIN orders THEN menu_items
         ELSE ReleaseAll(menu_items, orders[order_id].items, cart_items, 1)
    /\ UNCHANGED <<carts, cart_objs, cart_items, orders, customers,
                   cancellation_logs, refunds, now, discount_codes, calls>>

\* Faulty variant of cancel_order_rejected: a cancel_order on an order that
\* is already CANCELLED releases the stock of its lines again
cancel_order_rejected_releasing_again(order_id, error) ==
    /\ Return("cancel_order", FALSE, error, 0)
    /\ menu_items' =
         IF order_id \in DOMAIN orders /\ orders[order_id].status = "CANCELLED"
         THEN ReleaseAll(menu_items, orders[order_id].items, cart_items, 1)
         ELSE menu_items
    /\ UNCHANGED <<carts, cart_objs, cart_items, orders, customers,
                   cancellation_logs, refunds, now, discount_codes, calls>>

\* A return of cancel_order with success False, or the exception that ends
\* it: every one of them comes before the first assignment to the order
cancel_order_rejected(order_id, error) ==
    Fail("cancel_order", error)

\* OrderManager.cancel_order; the reason is free text, the order records that
\* one was given
cancel_order(order_id, customer_id) ==
    IF order_id \notin DOMAIN orders
    THEN cancel_order_rejected(order_id, "Order not found")
    ELSE IF orders[order_id].customer_id # customer_id
    THEN cancel_order_rejected(order_id, "Not authorized")
    ELSE
    LET op == "cancel_order"
        order == orders[order_id]
        recent_cancellations == get_customer_cancellations(customer_id, 30)
    IN
    IF recent_cancellations.raised # "None"
    THEN cancel_order_rejected(order_id, recent_cancellations.raised)
    ELSE IF Len(recent_cancellations.logs) >= MAX_CANCELLATIONS_PER_MONTH
    THEN cancel_order_rejected(order_id, "Monthly cancellation limit reached")
    ELSE IF refund_percentage(order.status) < 0
    THEN cancel_order_rejected(order_id, "Cannot cancel order in this status")
    ELSE
        /\ \E refund_amount \in
                  Round2(order.total * refund_percentage(order.status), 100) :
             /\ Stored(carts, cart_objs, cart_items,
                       Put(orders, order_id,
                           [order EXCEPT
                              !.status = "CANCELLED",
                              !.status_history =
                                  Append(@, [status |-> "CANCELLED",
                                             timestamp |-> now]),
                              !.cancellation_reason = "given",
                              !.refund_amount = refund_amount]))
             /\ Return(op, TRUE, "None", refund_amount)
        /\ menu_items' = ReleaseAll(menu_items, order.items, cart_items, 1)
        /\ customers' =
             IF order.loyalty_points_used > 0 /\ customer_id \in DOMAIN customers
             THEN [customers EXCEPT ![customer_id].total_points =
                                        @ + order.loyalty_points_used]
             ELSE customers
        /\ cancellation_logs' =
             Put(cancellation_logs, customer_id,
                 Append(IF customer_id \in DOMAIN cancellation_logs
                        THEN cancellation_logs[customer_id] ELSE <<>>, now))
        /\ UNCHANGED <<refunds, now, discount_codes, calls>>

\* The n-th smallest element of S
RECURSIVE Nth(_, _)
Nth(S, n) == IF n = 1 THEN Smallest(S) ELSE Nth(S \ {Smallest(S)}, n - 1)

\* Faulty variant of current_price: the price the line was ordered at
current_price_as_ordered(ci) == ci.unit_price

\* The price reorder gives a line: that of the catalog now
current_price(ci) ==
    _calculate_item_price(menu_items[ci.menu_item_id], <<ci.customization>>)

\* OrderManager.reorder; it returns the items it skipped.  Its CartItem
\* objects take the free ids of LineIds first, then those of ReorderLineIds.
reorder(order_id, customer_id) ==
    LET op == "reorder"
    IN
    IF order_id \notin DOMAIN orders THEN Fail(op, "Order not found")
    ELSE IF orders[order_id].customer_id # customer_id
    THEN Fail(op, "Not authorized")
    ELSE
    LET order == orders[order_id]
        carried == SelectSeq(order.items,
                             LAMBDA l : item_error(cart_items[l]) = "None")
        skipped == SelectSeq(order.items,
                             LAMBDA l : item_error(cart_items[l]) # "None")
        unavailable_items ==
            [i \in DOMAIN skipped |-> cart_items[skipped[i]].menu_item_id]
        free == FreeLineIds \cup (ReorderLineIds \ DOMAIN cart_items)
    IN
    IF carried = <<>> THEN Fail(op, "No items available to reorder")
    ELSE
        /\ Cardinality(free) >= Len(carried)
        /\ FreeCartRefs # {}
        /\ \E key \in ReorderCartIds \ DOMAIN carts :
             LET ref == Smallest(FreeCartRefs)
                 new_items == [i \in DOMAIN carried |-> Nth(free, i)]
                 copy(i) ==
                     LET ci == cart_items[carried[i]]
                     IN  [ci EXCEPT !.unit_price = current_price(ci),
                                    !.line_total = current_price(ci) * ci.quantity]
                 nl == [l \in DOMAIN cart_items \cup Range(new_items) |->
                          IF l \in DOMAIN cart_items THEN cart_items[l]
                          ELSE copy(CHOOSE i \in DOMAIN carried : new_items[i] = l)]
                 cart == [Cart(key, customer_id) EXCEPT !.items = new_items]
             IN  \E nc \in _recalculate_cart(cart, nl) :
                     Stored(Put(carts, key, ref), Put(cart_objs, ref, nc), nl, orders)
        /\ result' = [op |-> op, success |-> TRUE, error |-> "None",
                      value |-> 0, report |-> unavailable_items]
        /\ UNCHANGED <<menu_items, customers, cancellation_logs, refunds, now, discount_codes, calls>>

-----------------------------------------------------------------------------
(* Scheduled orders, order notes and refunds *)

\* Faulty variant of scheduled_time_error: no limit on how far ahead
scheduled_time_error_unlimited(scheduled_time, t) ==
    IF scheduled_time < t + 60
    THEN "Must schedule at least 1 hour in advance"
    ELSE IF ~(OPENING_HOUR <= HourOf(scheduled_time)
              /\ HourOf(scheduled_time) < CLOSING_HOUR)
    THEN "Restaurant not open at scheduled time"
    ELSE "None"

\* The checks schedule_order makes on the requested time at time t, in the
\* order the code makes them: the first error, or "None"
scheduled_time_error(scheduled_time, t) ==
    IF scheduled_time < t + 60
    THEN "Must schedule at least 1 hour in advance"
    ELSE IF scheduled_time > t + 7 * 1440
    THEN "Cannot schedule more than 7 days in advance"
    ELSE IF ~(OPENING_HOUR <= HourOf(scheduled_time)
              /\ HourOf(scheduled_time) < CLOSING_HOUR)
    THEN "Restaurant not open at scheduled time"
    ELSE "None"

\* OrderManager.schedule_order; it calls place_order without loyalty points
schedule_order(cart_id, customer_id, delivery_address, scheduled_time) ==
    LET op == "schedule_order"
        got == get_cart(cart_id)
        unscheduled(line) ==
            /\ line.menu_item_id \in DOMAIN menu_items
            /\ menu_items[line.menu_item_id].availability_schedule # {}
            /\ ~\E s \in menu_items[line.menu_item_id].availability_schedule :
                   /\ s.day_of_week = WeekdayOf(scheduled_time)
                   /\ s.start_time <= TimeOfDay(scheduled_time)
                   /\ TimeOfDay(scheduled_time) <= s.end_time
    IN
    IF scheduled_time_error(scheduled_time, now) # "None"
    THEN Fail(op, scheduled_time_error(scheduled_time, now))
    ELSE IF got = <<>> \/ cart_objs[got[1]].items = <<>>
    THEN Fail(op, "Cart is empty")
    ELSE IF \E i \in DOMAIN cart_objs[got[1]].items :
                unscheduled(cart_items[cart_objs[got[1]].items[i]])
    THEN Fail(op, "Not available at scheduled time")
    ELSE IF place_order_error(cart_id, delivery_address) # "None"
    THEN Fail(op, place_order_error(cart_id, delivery_address))
    ELSE
    LET ref == got[1]
        cart == cart_objs[ref]
        id == Smallest(OrderIds \ DOMAIN orders)
        cleared == Cleared(cart)
    IN  /\ OrderIds \ DOMAIN orders # {}
        /\ \E rnd \in RandomInputs, total \in Round2(cart.total, 1) :
             LET order == PlacedOrder(cart, customer_id, delivery_address,
                                      0, rnd, total)
                 saved == [order EXCEPT !.is_scheduled = TRUE,
                                        !.scheduled_for = scheduled_time,
                                        !.estimated_delivery_time = scheduled_time]
             IN  /\ Stored(Put(carts, cleared.id, ref), Put(cart_objs, ref, cleared),
                           cart_items, Put(orders, id, saved))
                 /\ Return(op, TRUE, "None", id)
        /\ menu_items' = ReserveAll(menu_items, cart.items, cart_items, 1)
        /\ UNCHANGED <<customers, cancellation_logs, refunds, now, discount_codes, calls>>

\* Faulty variant of cutoff: the scheduled time itself
cutoff_at_scheduled_time(order) == order.scheduled_for

\* cutoff of modify_scheduled_order: 30 minutes before the scheduled time
cutoff(order) == order.scheduled_for - 30

\* OrderManager.modify_scheduled_order; new_time is -1 for None, and the
\* keyword arguments item_changes are accepted and never read
modify_scheduled_order(order_id, customer_id, new_time) ==
    LET op == "modify_scheduled_order"
    IN
    IF order_id \notin DOMAIN orders THEN Fail(op, "Order not found")
    ELSE IF orders[order_id].customer_id # customer_id
    THEN Fail(op, "Not authorized")
    ELSE IF ~orders[order_id].is_scheduled THEN Fail(op, "Not a scheduled order")
    ELSE IF now > cutoff(orders[order_id])
    THEN Fail(op, "Modification cutoff passed")
    ELSE
    LET order == orders[order_id]
        saved == IF new_time # -1
                 THEN [order EXCEPT !.scheduled_for = new_time,
                                    !.estimated_delivery_time = new_time]
                 ELSE order
    IN  /\ Stored(carts, cart_objs, cart_items, Put(orders, order_id, saved))
        /\ Return(op, TRUE, "None", order_id)
        /\ UNCHANGED <<menu_items, customers, cancellation_logs, refunds, now, discount_codes, calls>>

\* OrderManager._filter_content on the notes of NoteInputs
_filter_content(text) == IF text = "spam" THEN "***" ELSE text

\* OrderManager._contains_contact_info on the notes of NoteInputs
_contains_contact_info(text) == text = "call 01234567890"

\* OrderManager.add_order_notes; every note of NoteInputs has at most 500
\* characters
add_order_notes(order_id, notes) ==
    LET op == "add_order_notes"
    IN
    IF order_id \notin DOMAIN orders THEN Fail(op, "Order not found")
    ELSE IF _filter_content(notes) # notes
    THEN Fail(op, "Notes contain inappropriate content")
    ELSE IF _contains_contact_info(notes)
    THEN Fail(op, "Notes cannot contain contact information")
    ELSE
        /\ Stored(carts, cart_objs, cart_items,
                  Put(orders, order_id,
                      [orders[order_id] EXCEPT !.order_notes = notes]))
        /\ Return(op, TRUE, "None", order_id)
        /\ UNCHANGED <<menu_items, customers, cancellation_logs, refunds, now, discount_codes, calls>>

\* Storage.get_order_refunds
get_order_refunds(order_id) ==
    IF order_id \in DOMAIN refunds THEN refunds[order_id] ELSE <<>>

\* Faulty variant of process_refund_error: the payment status of the order
\* is not looked at
process_refund_error_unpaid_allowed(order_id, amount) ==
    LET total_refunded == SumSeq(get_order_refunds(order_id))
    IN  IF order_id \notin DOMAIN orders THEN "Order not found"
        ELSE IF amount <= 0 THEN "Invalid amount"
        ELSE IF total_refunded + amount > orders[order_id].total
        THEN "Exceeds paid amount"
        ELSE IF total_refunded >= orders[order_id].total
        THEN "Already fully refunded"
        ELSE "None"

\* The error process_refund returns, "None" when it goes on to refund
process_refund_error(order_id, amount) ==
    LET total_refunded == SumSeq(get_order_refunds(order_id))
    IN  IF order_id \notin DOMAIN orders THEN "Order not found"
        ELSE IF orders[order_id].payment_status # "paid" THEN "Order not paid"
        ELSE IF amount <= 0 THEN "Invalid amount"
        ELSE IF total_refunded + amount > orders[order_id].total
        THEN "Exceeds paid amount"
        ELSE IF total_refunded >= orders[order_id].total
        THEN "Already fully refunded"
        ELSE "None"

\* PaymentDeliveryManager.process_refund
process_refund(order_id, amount) ==
    LET op == "process_refund"
        error == process_refund_error(order_id, amount)
    IN
    IF error # "None" THEN Fail(op, error)
    ELSE
    LET order == orders[order_id]
        existing == get_order_refunds(order_id)
        total_refunded == SumSeq(existing)
        points_restore ==
            IF order.loyalty_points_used > 0 /\ total_refunded = 0
            THEN (order.loyalty_points_used * amount) \div order.total
            ELSE 0
    IN  /\ \E rounded \in Round2(amount, 1) :
               refunds' = Put(refunds, order_id, Append(existing, rounded))
        /\ customers' =
             IF points_restore > 0 /\ order.customer_id \in DOMAIN customers
             THEN [customers EXCEPT ![order.customer_id].total_points =
                                        @ + points_restore]
             ELSE customers
        /\ Stored(carts, cart_objs, cart_items,
                  Put(orders, order_id,
                      [order EXCEPT !.refund_amount = total_refunded + amount]))
        /\ Return(op, TRUE, "None", total_refunded + amount)
        /\ UNCHANGED <<menu_items, cancellation_logs, now, discount_codes, calls>>

-----------------------------------------------------------------------------
(* Catalog *)

\* Storage.delete_menu_item
delete_menu_item(item_id) ==
    /\ menu_items' = Del(menu_items, item_id)
    /\ Return("delete_menu_item", TRUE, "None", 0)
    /\ UNCHANGED <<carts, cart_objs, cart_items, orders, customers,
                   cancellation_logs, refunds, now, discount_codes, calls>>

\* MenuManager._validate_schedule
_validate_schedule(schedule) ==
    IF ~(0 <= schedule.day_of_week /\ schedule.day_of_week <= 6)
    THEN "Day of week must be 0-6 (Mon-Sun)"
    ELSE IF schedule.start_time >= schedule.end_time
    THEN "Start time must be before end time"
    ELSE "None"

\* MenuManager._check_schedule_conflicts: two slots of one day, next to
\* each other by start time, of which the earlier ends after the later starts
_check_schedule_conflicts(schedules) ==
    \E s1, s2 \in schedules :
        /\ s1 # s2
        /\ s1.day_of_week = s2.day_of_week
        /\ s1.start_time <= s2.start_time
        /\ ~\E s3 \in schedules \ {s1, s2} :
               /\ s3.day_of_week = s1.day_of_week
               /\ s1.start_time <= s3.start_time
               /\ s3.start_time <= s2.start_time
        /\ s1.end_time > s2.start_time

\* MenuManager.set_availability_schedule; schedules is a list of distinct
\* slots, kept as a set
set_availability_schedule(item_id, schedules) ==
    LET op == "set_availability_schedule" IN
    IF item_id \notin DOMAIN menu_items THEN Fail(op, "Item not found")
    ELSE IF \E x \in schedules : _validate_schedule(x) # "None"
    THEN Fail(op, "Invalid schedule")
    ELSE IF _check_schedule_conflicts(schedules)
    THEN Fail(op, "Schedule conflicts")
    ELSE /\ menu_items' = [menu_items EXCEPT
                              ![item_id].availability_schedule = schedules]
         /\ Return(op, TRUE, "None", 0)
         /\ UNCHANGED <<carts, cart_objs, cart_items, orders, customers,
                        cancellation_logs, refunds, now, discount_codes, calls>>

\* MenuManager.update_menu_item(item_id, price=price)
update_menu_item(item_id, price) ==
    LET op == "update_menu_item" IN
    IF item_id \notin DOMAIN menu_items THEN Fail(op, "Item not found")
    ELSE IF price < 500 THEN Fail(op, "Price must be at least 0.50")
    ELSE IF price > 500000 THEN Fail(op, "Price must not exceed 500")
    ELSE IF price % 10 # 0
    THEN Fail(op, "Price can have maximum 2 decimal places")
    ELSE /\ menu_items' = [menu_items EXCEPT ![item_id].price = price]
         /\ Return(op, TRUE, "None", price)
         /\ UNCHANGED <<carts, cart_objs, cart_items, orders, customers,
                        cancellation_logs, refunds, now, discount_codes, calls>>

\* Storage.save_discount_code of the DiscountCode `code` with its is_active
\* flag set to is_active
save_discount_code(code, is_active) ==
    /\ discount_codes' =
           Put(discount_codes, code,
               [InitialDiscountCodes[code] EXCEPT !.is_active = is_active])
    /\ Return("save_discount_code", TRUE, "None", 0)
    /\ UNCHANGED <<menu_items, carts, cart_objs, cart_items, orders,
                   customers, cancellation_logs, refunds, now, calls>>

\* PaymentDeliveryManager.create_discount_code(code, discount_type, value)
\* with the defaults of its other parameters; the codes of
\* DiscountCodeInputs are upper case already
create_discount_code(code, discount_type, value) ==
    LET op == "create_discount_code"
    IN
    IF Len(code) < 4 THEN Fail(op, "Code must be 4+ characters")
    ELSE IF code \in DOMAIN discount_codes THEN Fail(op, "Code exists")
    ELSE IF value <= 0 THEN Fail(op, "Value must be positive")
    ELSE IF discount_type = "PERCENTAGE" /\ value > 100 THEN Fail(op, "Max 100%")
    ELSE
        /\ discount_codes' =
               Put(discount_codes, code,
                   [discount_type |-> discount_type, value |-> value,
                    min_order_amount |-> 0, max_discount_amount |-> 0,
                    usage_limit |-> 0, times_used |-> 0,
                    is_single_use_per_customer |-> FALSE,
                    is_first_order_only |-> FALSE,
                    valid_from |-> now, valid_until |-> now + 30 * 1440,
                    is_active |-> TRUE])
        /\ Return(op, TRUE, "None", 0)
        /\ UNCHANGED <<menu_items, carts, cart_objs, cart_items, orders,
                       customers, cancellation_logs, refunds, now, calls>>

-----------------------------------------------------------------------------
(* Clock *)

\* Time passes between two calls
Tick == /\ \E t \in ClockInstants : t > now /\ now' = t
        /\ Return("Tick", TRUE, "None", 0)
        /\ UNCHANGED <<menu_items, carts, cart_objs, cart_items, orders,
                       customers, cancellation_logs, refunds, discount_codes, calls>>

-----------------------------------------------------------------------------

Init ==
    /\ menu_items = InitialMenu
    /\ carts = <<>>
    /\ cart_objs = <<>>
    /\ cart_items = <<>>
    /\ orders = <<>>
    /\ customers = InitialCustomers
    /\ cancellation_logs = [c \in {} |-> <<>>]
    /\ refunds = [o \in {} |-> <<>>]
    /\ discount_codes = InitialDiscountCodes
    /\ calls = <<>>
    /\ now = Smallest(ClockInstants)
    /\ result = [op |-> "None", success |-> TRUE, error |-> "None",
                 value |-> 0, report |-> <<>>]

\* The cart engine and the front end's cart mutations, before any order
NextCart ==
    \/ \E c \in KnownCartIds, i \in CartItemInputs, q \in QuantityInputs,
          z \in CustomizationInputs : add_to_cart(c, i, q, z)
    \/ \E c \in KnownCartIds, l \in LineIds,
          q \in {<<>>} \cup {<<n>> : n \in NewQuantityInputs} :
              update_cart_item(c, l, q)
    \/ \E c \in KnownCartIds, l \in LineIds : remove_from_cart(c, l)
    \/ \E c \in KnownCartIds : clear_cart(c)
    \/ merge_carts("guest", "cust")
    \/ \E d \in CodeInputs : _view_cart(SessionCartId, d)
    \/ \E a \in AddressInputs : _checkout(SessionCartId, a)

SpecCart == Init /\ [][NextCart]_vars

\* Carts filled by plain additions, and every way place_order can end
NextPlace ==
    \/ \E c \in CartIds, i \in ItemIds, q \in OrderQuantities :
          add_to_cart(c, i, q, <<>>)
    \/ \E c \in CartIds, l \in LineIds :
          update_cart_item(c, l, <<MAX_ITEM_QUANTITY>>)
    \/ \E c \in CartIds, a \in AddressInputs, p \in PointsInputs :
          place_order(c, "c1", a, p)
    \/ \E i \in ItemIds : delete_menu_item(i)
    \/ Tick

SpecPlace == Init /\ [][NextPlace]_vars

\* Orders placed from one cart, and everything that can happen to them after
NextLifecycle ==
    \/ \E q \in QuantityInputs : add_to_cart("cust", "a", q, <<>>)
    \/ place_order("cust", "c1", "ZONE_1", 0)
    \/ \E o \in OrderIds, n \in Statuses : update_order_status(o, n)
    \/ \E o \in OrderIds, u \in CustomerIds : cancel_order(o, u)
    \/ \E o \in OrderIds, u \in CustomerIds :
          reorder(o, u) /\ DOMAIN cart_items' \subseteq LineIds
    \/ Tick

SpecLifecycle == Init /\ [][NextLifecycle]_vars

\* Orders placed from one cart and cancelled against a cancellation log that
\* clients of the store can write
NextLimit ==
    \/ \E q \in QuantityInputs : add_to_cart(SessionCartId, "a", q, <<>>)
    \/ place_order(SessionCartId, "c1", "ZONE_1", 0)
    \/ \E o \in OrderIds : log_cancellation(o, "c1")
    \/ \E o \in OrderIds, u \in CustomerIds : cancel_order(o, u)
    \/ Tick

SpecLimit == Init /\ [][NextLimit]_vars

\* One order placed or scheduled from the session cart, and every operation
\* that is handed an order or a cart afterwards
NextOrder ==
    \/ \E q \in QuantityInputs : add_to_cart(SessionCartId, "a", q, <<>>)
    \/ \E c \in KnownCartIds, l \in LineIds :
          update_cart_item(c, l, <<75>>)
    \/ \E c \in KnownCartIds : clear_cart(c)
    \/ orders = <<>> /\ \E p \in RedeemedPoints :
          place_order(SessionCartId, "c1", "ZONE_1", p)
    \/ orders = <<>> /\ \E t \in ScheduledTimeInputs :
          schedule_order(SessionCartId, "c1", "ZONE_1", t)
    \/ \E o \in OrderIds, n \in Statuses : update_order_status(o, n)
    \/ \E o \in OrderIds, u \in CustomerIds : cancel_order(o, u)
    \/ \E o \in OrderIds, u \in CustomerIds, t \in NewTimeInputs :
          modify_scheduled_order(o, u, t)
    \/ \E o \in OrderIds, n \in NoteInputs : add_order_notes(o, n)
    \/ \E o \in OrderIds, a \in RefundInputs : process_refund(o, a)
    \/ \E o \in OrderIds, u \in CustomerIds :
          reorder(o, u) /\ DOMAIN cart_items' \subseteq LineIds
    \/ Tick

SpecOrder == Init /\ [][NextOrder]_vars

\* Two carts filled with customized lines while the catalog's prices change,
\* and merged on login
NextMerge ==
    \/ \E c \in CartIds, q \in MergeQuantities, z \in MergeCustomizations :
          add_to_cart(c, "a", q, z)
    \/ \E c \in CartIds, l \in LineIds : update_cart_item(c, l, <<75>>)
    \/ \E p \in PriceInputs : update_menu_item("a", p)
    \/ merge_carts("guest", "cust")

SpecMerge == Init /\ [][NextMerge]_vars

\* Orders scheduled from the session cart while the catalog's availability
\* schedules change
NextSchedule ==
    \/ add_to_cart(SessionCartId, "a", 25, <<>>)
    \/ \E x \in ScheduleInputs : set_availability_schedule("a", x)
    \/ \E a \in {"ZONE_1", "OUT_OF_RANGE"}, t \in FutureTimeInputs :
          schedule_order(SessionCartId, "c1", a, t)
    \/ Tick

SpecSchedule == Init /\ [][NextSchedule]_vars

\* One order of up to two lines, reordered while the catalog changes
NextReorder ==
    \/ \E i \in ItemIds, q \in OrderQuantities :
          add_to_cart(SessionCartId, i, q, <<>>)
    \/ orders = <<>> /\ place_order(SessionCartId, "c1", "ZONE_1", 0)
    \/ \E p \in PriceInputs : update_menu_item("a", p)
    \/ \E i \in ItemIds : delete_menu_item(i)
    \/ \E o \in OrderIds, u \in CustomerIds : reorder(o, u)
    \/ Tick

SpecReorder == Init /\ [][NextReorder]_vars

\* The session cart with a discount code, while the store's codes are
\* switched off and on
NextDiscount ==
    \/ \E q \in QuantityInputs : add_to_cart(SessionCartId, "a", q, <<>>)
    \/ \E l \in LineIds : update_cart_item(SessionCartId, l, <<75>>)
    \/ \E l \in LineIds : remove_from_cart(SessionCartId, l)
    \/ \E d \in CodeInputs : _view_cart(SessionCartId, d)
    \/ \E a \in AddressInputs : _checkout(SessionCartId, a)
    \/ \E d \in DOMAIN InitialDiscountCodes, b \in BOOLEAN :
          save_discount_code(d, b)

SpecDiscount == Init /\ [][NextDiscount]_vars

\* One order whose status two threads change at the same time.  cancel_order
\* is one step: no cancel_order gets as far as reading the status.
NextRace ==
    \/ orders = <<>> /\ add_to_cart(SessionCartId, "a", 25, <<>>)
    \/ orders = <<>> /\ place_order(SessionCartId, "c1", "ZONE_1", 0)
    \/ \E th \in Threads, o \in OrderIds, n \in RaceStatuses :
          update_order_status_check(th, o, n)
    \/ \E th \in Threads : update_order_status_write(th)
    \/ calls = <<>> /\ \E o \in OrderIds, u \in CustomerIds : cancel_order(o, u)
    \/ calls = <<>> /\ Tick

SpecRace == Init /\ [][NextRace]_vars

\* Orders placed and scheduled from the session cart, and rescheduled
NextModify ==
    \/ add_to_cart(SessionCartId, "a", 25, <<>>)
    \/ place_order(SessionCartId, "c1", "ZONE_1", 0)
    \/ \E t \in ScheduledTimeInputs :
          schedule_order(SessionCartId, "c1", "ZONE_1", t)
    \/ \E o \in OrderIds, u \in CustomerIds, t \in ModifyTimeInputs :
          modify_scheduled_order(o, u, t)
    \/ Tick

SpecModify == Init /\ [][NextModify]_vars

\* The operations that look at the stock or move it, on carts that may hold
\* an item under two customizations
NextStock ==
    \/ \E i \in ItemIds, q \in OrderQuantities, z \in MergeCustomizations :
          add_to_cart(SessionCartId, i, q, z)
    \/ place_order(SessionCartId, "c1", "ZONE_1", 0)
    \/ \E t \in ScheduledTimeInputs :
          schedule_order(SessionCartId, "c1", "ZONE_1", t)
    \/ \E o \in OrderIds, u \in CustomerIds : cancel_order(o, u)
    \/ Tick

SpecStock == Init /\ [][NextStock]_vars

\* The session cart while discount codes are created and applied to it
NextCode ==
    \/ add_to_cart(SessionCartId, "a", 25, <<>>)
    \/ \E l \in LineIds : remove_from_cart(SessionCartId, l)
    \/ \E x \in DiscountCodeInputs : create_discount_code(x[1], x[2], x[3])
    \/ \E x \in DiscountCodeInputs : _view_cart(SessionCartId, x[1])

SpecCode == Init /\ [][NextCode]_vars

-----------------------------------------------------------------------------
(* Properties of carts (SpecCart) *)

CartMutations ==
    {"add_to_cart", "update_cart_item", "remove_from_cart", "clear_cart",
     "merge_carts", "reorder", "_view_cart", "_checkout"}

TotalMatchesParts(cart) ==
    cart.total \in CartTotal(cart.subtotal, cart.discount_amount,
                             cart.tax_amount, cart.delivery_fee, cart.tip_amount)

\* C1: after a cart mutation that succeeded, every stored cart has
\* total = round(subtotal - discount_amount + tax_amount + delivery_fee +
\* tip_amount, 2).
C1_TotalMatchesParts ==
    result.op \in CartMutations /\ result.success
        => \A k \in DOMAIN carts : TotalMatchesParts(cart_objs[carts[k]])

\* C2: the quantities of the lines of a cart never add up to more than 50.
C2_CartHoldsAtMost50 ==
    \A k \in DOMAIN carts :
        TotalQuantity(cart_objs[carts[k]].items, cart_items) <= MAX_CART_ITEMS

\* C3: every line of every cart has a quantity between 1 and 99.
C3_LineQuantityInRange ==
    \A k \in DOMAIN carts : \A l \in Range(cart_objs[carts[k]].items) :
        /\ cart_items[l].quantity \in Nat
        /\ 1 <= cart_items[l].quantity
        /\ cart_items[l].quantity <= MAX_ITEM_QUANTITY

\* A merge has just left a line at the largest quantity, above what
\* add_to_cart alone can build in one cart
C3_Witness ==
    /\ result.op = "merge_carts"
    /\ result.success
    /\ "cust" \in DOMAIN carts
    /\ \E l \in Range(cart_objs[carts["cust"]].items) :
           cart_items[l].quantity = MAX_ITEM_QUANTITY

\* A cart without lines whose monetary fields are all zero
ZeroCart(cart) ==
    /\ cart.items = <<>>
    /\ cart.subtotal = 0
    /\ cart.discount_amount = 0
    /\ cart.tax_amount = 0
    /\ cart.delivery_fee = 0
    /\ cart.tip_amount = 0
    /\ cart.total = 0

\* C18: clear_cart on an existing cart always succeeds, and after it, as
\* after every successful place_order, the cart has no lines and its
\* subtotal, discount amount, tax amount, delivery fee, tip amount and total
\* are zero.
C18_ClearedCartIsZero ==
    [][\A c \in DOMAIN carts :
          \/ result'.op = "clear_cart" /\ clear_cart(c)
          \/ /\ result'.op = "place_order" /\ result'.success
             /\ \E u \in CustomerIds, a \in AddressInputs, p \in PointsInputs :
                   place_order(c, u, a, p)
          => /\ result'.success
             /\ c \in DOMAIN carts'
             /\ ZeroCart(cart_objs'[carts'[c]])]_vars

\* The tax of a cart is 20% of its subtotal less its discount, to the penny
TaxOnDiscounted(cart) ==
    cart.tax_amount \in Round2((cart.subtotal - cart.discount_amount) * VAT_RATE,
                               100)

\* C19: applying a discount code to a cart: when the code is valid it is
\* attached and the discount, the tax and the total are recomputed before
\* the cart is stored, the tax being 20% of the discounted subtotal; when it
\* is not, the cart's code, discount amount, tax and total are unchanged.
C19_DiscountCodeApplied ==
    [][\A d \in CodeInputs :
          result'.op = "_view_cart" /\ _view_cart(SessionCartId, d)
          => IF result'.success
             THEN LET cart == cart_objs'[carts'[SessionCartId]]
                  IN  /\ cart.discount_code = d
                      /\ TaxOnDiscounted(cart)
                      /\ TotalMatchesParts(cart)
             ELSE carts' = carts /\ cart_objs' = cart_objs]_vars

\* The operations that end with _recalculate_cart
RecomputingOperations ==
    {"add_to_cart", "update_cart_item", "remove_from_cart", "merge_carts",
     "reorder", "_checkout"}

\* C20: after every recomputation of a cart's totals, its tax_amount is
\* round((subtotal - discount_amount) x 0.20, 2): the tax is charged on the
\* discounted subtotal.
C20_TaxOnDiscountedSubtotal ==
    [][result'.op \in RecomputingOperations /\ result'.success
          => \A r \in DOMAIN cart_objs' :
                r \notin DOMAIN cart_objs \/ cart_objs'[r] # cart_objs[r]
                => TaxOnDiscounted(cart_objs'[r])]_vars

\* The checkout has just recomputed a cart that carries a discount
C20_Witness ==
    /\ result.op = "_checkout"
    /\ result.success
    /\ \E r \in DOMAIN cart_objs :
           /\ cart_objs[r].discount_code # "None"
           /\ cart_objs[r].discount_amount > 0
           /\ cart_objs[r].delivery_fee > 0

-----------------------------------------------------------------------------
(* Properties of the order lifecycle (SpecLifecycle) *)

SpecifiedTransitions ==
    {<<"PENDING", "CONFIRMED">>, <<"CONFIRMED", "PREPARING">>,
     <<"PREPARING", "READY">>, <<"READY", "OUT_FOR_DELIVERY">>,
     <<"OUT_FOR_DELIVERY", "DELIVERED">>, <<"PENDING", "CANCELLED">>,
     <<"CONFIRMED", "CANCELLED">>, <<"PREPARING", "CANCELLED">>}

\* C4: update_order_status with a pair (current status, requested status)
\* outside the specified transitions fails and leaves the order's status,
\* status history, delivery time and estimate as they were.
C4_InvalidTransitionRejected ==
    [][\A o \in DOMAIN orders, n \in Statuses :
          <<orders[o].status, n>> \notin SpecifiedTransitions
          /\ result'.op = "update_order_status"
          /\ update_order_status(o, n)
          => /\ ~result'.success
             /\ orders'[o].status = orders[o].status
             /\ orders'[o].status_history = orders[o].status_history
             /\ orders'[o].actual_delivery_time = orders[o].actual_delivery_time
             /\ orders'[o].estimated_delivery_time
                    = orders[o].estimated_delivery_time]_vars

\* update_order_status has just refused a transition of an existing order
C4_Witness ==
    /\ result.op = "update_order_status"
    /\ ~result.success
    /\ result.error = "Cannot change status"

\* C5: an order that is DELIVERED or CANCELLED keeps that status through every
\* call, and an order becomes CANCELLED only from PENDING, CONFIRMED or
\* PREPARING.
C5_TerminalStatusesAbsorb ==
    [][/\ \A o \in DOMAIN orders :
             /\ o \in DOMAIN orders'
             /\ orders[o].status \in {"DELIVERED", "CANCELLED"}
                    => orders'[o].status = orders[o].status
             /\ orders'[o].status = "CANCELLED" /\ orders[o].status # "CANCELLED"
                    => orders[o].status \in {"PENDING", "CONFIRMED", "PREPARING"}
       /\ \A o \in DOMAIN orders' \ DOMAIN orders :
             orders'[o].status # "CANCELLED"]_vars

\* One order is DELIVERED, another CANCELLED, and a status change has just
\* been refused
C5_Witness ==
    /\ \E o \in DOMAIN orders : orders[o].status = "DELIVERED"
    /\ \E o \in DOMAIN orders : orders[o].status = "CANCELLED"
    /\ result.op = "update_order_status"
    /\ result.error = "Cannot change status"

\* The cancellations of a customer in the 30 days before t
RecentCancellations(customer_id, t) ==
    IF customer_id \notin DOMAIN cancellation_logs THEN 0
    ELSE Cardinality({i \in DOMAIN cancellation_logs[customer_id] :
                         cancellation_logs[customer_id][i] > t - 30 * 1440})

\* C6: cancel_order by the owner, under the cancellation limit, succeeds with
\* a refund of the whole total from PENDING or CONFIRMED, succeeds with a
\* refund of round(half the total, 2) from PREPARING, and fails with refund 0
\* from READY, OUT_FOR_DELIVERY, DELIVERED or CANCELLED.
C6_OwnerCancelRefund ==
    [][\A o \in DOMAIN orders :
          RecentCancellations(orders[o].customer_id, now)
              < MAX_CANCELLATIONS_PER_MONTH
          /\ result'.op = "cancel_order"
          /\ cancel_order(o, orders[o].customer_id)
          => IF orders[o].status \in {"PENDING", "CONFIRMED"}
             THEN result'.success /\ result'.value = orders[o].total
             ELSE IF orders[o].status = "PREPARING"
             THEN result'.success
                  /\ result'.value \in Round2(orders[o].total * 50, 100)
             ELSE ~result'.success /\ result'.value = 0]_vars

\* C14: cancel_order fails with the monthly-limit error whenever the customer
\* already has 3 or more cancellations logged in the last 30 days, so a
\* cancel_order that succeeds found fewer than 3 of them.
C14_MonthlyLimitRefuses ==
    [][\A o \in DOMAIN orders :
          result'.op = "cancel_order"
          /\ cancel_order(o, orders[o].customer_id)
          => IF RecentCancellations(orders[o].customer_id, now)
                    >= MAX_CANCELLATIONS_PER_MONTH
             THEN ~result'.success
                  /\ result'.error = "Monthly cancellation limit reached"
             ELSE result'.error # "Monthly cancellation limit reached"]_vars

-----------------------------------------------------------------------------
(* Properties of place_order (SpecPlace) *)

\* C7: a place_order that fails stores no order, changes no item's stock or
\* availability, and leaves every cart as it was.
C7_FailedOrderChangesNothing ==
    [][result'.op = "place_order" /\ ~result'.success
          => /\ orders' = orders
             /\ menu_items' = menu_items
             /\ carts' = carts
             /\ cart_objs' = cart_objs
             /\ cart_items' = cart_items]_vars

\* place_order has just failed on a line whose item an earlier order left
\* under-stocked
C7_Witness ==
    /\ result.op = "place_order"
    /\ ~result.success
    /\ result.error = "Insufficient stock"
    /\ orders # <<>>

EarlyRejections ==
    {"Cart is empty", "Minimum order", "Delivery address required",
     "Outside delivery area"}

\* C8: place_order rejects a missing or empty cart first, then a subtotal
\* under 10.00 (10.00 itself passes), then an absent address, then an address
\* out of range; the checks of the items and of the opening hours come after
\* these four.
C8_RejectionPrecedence ==
    [][\A c \in CartIds, a \in AddressInputs :
          result'.op = "place_order"
          => \/ IF c \notin DOMAIN carts THEN result'.error = "Cart is empty"
                ELSE IF cart_objs[carts[c]].items = <<>>
                THEN result'.error = "Cart is empty"
                ELSE IF cart_objs[carts[c]].subtotal < 10000
                THEN result'.error = "Minimum order"
                ELSE IF a = "None"
                THEN result'.error = "Delivery address required"
                ELSE IF a = "OUT_OF_RANGE"
                THEN result'.error = "Outside delivery area"
                ELSE result'.error \notin EarlyRejections
             \/ \A p \in PointsInputs : ~place_order(c, "c1", a, p)]_vars

\* place_order has just asked for an address while the restaurant is closed,
\* and every cart with lines has a subtotal of exactly 10.00
C8_Witness ==
    /\ result.op = "place_order"
    /\ result.error = "Delivery address required"
    /\ ~_is_restaurant_open(now)
    /\ \E k \in DOMAIN carts : cart_objs[carts[k]].items # <<>>
    /\ \A k \in DOMAIN carts :
           cart_objs[carts[k]].items # <<>>
               => cart_objs[carts[k]].subtotal = 10000

\* The loyalty discount a successful place_order(c, "c1", a, p) applied
AppliedLoyaltyDiscount(c) ==
    orders'[result'.value].discount_amount - cart_objs[carts[c]].discount_amount

\* What C9 says of the discount and of the points used
LoyaltyDiscountAsSpecified(c, p) ==
    LET total == cart_objs[carts[c]].total
        applied == AppliedLoyaltyDiscount(c)
    IN  /\ (2 * p * 10 <= total => applied = p * 10)
        /\ (2 * p * 10 > total => 2 * applied = total)
        /\ 2 * applied <= total
        /\ orders'[result'.value].loyalty_points_used = applied \div 10
        /\ (2 * p * 10 > total => orders'[result'.value].loyalty_points_used < p)

\* C9 as stated: for loyalty_points_to_use > 0 covered by the balance, the
\* discount applied is min(points x 0.01, half the cart total),
\* loyalty_points_used is floor(discount / 0.01) and is less than the points
\* asked for when the cap applies, and the order total is exactly the cart
\* total minus the discount.
C9_LoyaltyOrderTotalExact ==
    [][\A c \in CartIds, a \in AddressInputs, p \in PointsInputs :
          /\ p > 0 /\ customers["c1"].total_points >= p
          /\ result'.op = "place_order" /\ result'.success
          /\ c \in DOMAIN carts
          => \/ /\ LoyaltyDiscountAsSpecified(c, p)
                /\ orders'[result'.value].total
                       = cart_objs[carts[c]].total - AppliedLoyaltyDiscount(c)
             \/ ~place_order(c, "c1", a, p)]_vars

\* C9 amended: as C9, but the order total is the cart total minus the
\* discount rounded to the penny.
C9_LoyaltyOrderTotalRounded ==
    [][\A c \in CartIds, a \in AddressInputs, p \in PointsInputs :
          /\ p > 0 /\ customers["c1"].total_points >= p
          /\ result'.op = "place_order" /\ result'.success
          /\ c \in DOMAIN carts
          => \/ /\ LoyaltyDiscountAsSpecified(c, p)
                /\ orders'[result'.value].total
                       \in Round2(cart_objs[carts[c]].total
                                      - AppliedLoyaltyDiscount(c), 1)
             \/ ~place_order(c, "c1", a, p)]_vars

\* An order has just been placed with a capped loyalty discount that ends in
\* half a penny
C9_Witness ==
    /\ result.op = "place_order"
    /\ result.success
    /\ orders[result.value].loyalty_points_used > 0
    /\ orders[result.value].discount_amount % 10 = 5

\* C10: no two stored orders have the same order number.
C10_OrderNumbersDistinct ==
    \A o1 \in DOMAIN orders, o2 \in DOMAIN orders :
        o1 # o2 => orders[o1].order_number # orders[o2].order_number

\* The total quantity of the lines of cart c that reference item i
OrderedQuantity(c, i) ==
    LET items == cart_objs[carts[c]].items
    IN  SumSeq([k \in DOMAIN items |->
                   IF cart_items[items[k]].menu_item_id = i
                   THEN cart_items[items[k]].quantity ELSE 0])

\* What C17 says of the catalog after a successful place_order from cart c
StockReservedFor(c) ==
    /\ DOMAIN menu_items' = DOMAIN menu_items
    /\ \A i \in DOMAIN menu_items :
          /\ menu_items'[i].stock_quantity
                 = menu_items[i].stock_quantity - OrderedQuantity(c, i)
          /\ menu_items'[i].stock_quantity = 0 => ~menu_items'[i].is_available
          /\ menu_items'[i].stock_quantity > 0
                 => menu_items'[i].is_available = menu_items[i].is_available
          /\ OrderedQuantity(c, i) = 0 => menu_items'[i] = menu_items[i]

\* C17: a successful place_order lowers the stock of each catalog item by the
\* total quantity of the cart's lines that reference it, marks an item
\* unavailable when its stock reaches zero, and changes no other item.
C17_StockReservedPerLine ==
    [][\A c \in CartIds :
          /\ result'.op = "place_order" /\ result'.success
          /\ c \in DOMAIN carts
          => \/ StockReservedFor(c)
             \/ \A a \in AddressInputs, p \in PointsInputs :
                   ~place_order(c, "c1", a, p)]_vars

\* An order of two lines has just been placed and has taken the last of
\* item b, which is no longer available
C17_Witness ==
    /\ result.op = "place_order"
    /\ result.success
    /\ Len(orders[result.value].items) = 2
    /\ "b" \in DOMAIN menu_items
    /\ menu_items["b"].stock_quantity = 0
    /\ ~menu_items["b"].is_available

-----------------------------------------------------------------------------
(* Properties of a placed order (SpecOrder) *)

\* The lines and the monetary fields of the order os[o], the lines read from
\* the CartItem objects `lines`
FrozenPart(os, lines, o) ==
    [items |-> [i \in DOMAIN os[o].items |->
                   [id |-> os[o].items[i],
                    menu_item_id |-> lines[os[o].items[i]].menu_item_id,
                    quantity |-> lines[os[o].items[i]].quantity,
                    unit_price |-> lines[os[o].items[i]].unit_price,
                    line_total |-> lines[os[o].items[i]].line_total]],
     subtotal |-> os[o].subtotal,
     discount_amount |-> os[o].discount_amount,
     tax_amount |-> os[o].tax_amount,
     delivery_fee |-> os[o].delivery_fee,
     tip_amount |-> os[o].tip_amount,
     total |-> os[o].total]

\* C11: once place_order has created an order, no later operation changes
\* its lines (ids, quantities, unit prices, line totals) or its subtotal,
\* discount, tax, delivery fee, tip and total: not update_order_status,
\* cancel_order, add_order_notes, modify_scheduled_order, nor any mutation of
\* the cart it came from or of another cart.
C11_PlacedOrderFrozen ==
    [][\A o \in DOMAIN orders :
          /\ o \in DOMAIN orders'
          /\ FrozenPart(orders', cart_items', o)
                 = FrozenPart(orders, cart_items, o)]_vars

\* A line of a cart has just been updated while an order that carries notes
\* and has been confirmed is stored
C11_Witness ==
    /\ result.op = "update_cart_item"
    /\ result.success
    /\ \E o \in DOMAIN orders :
           /\ orders[o].order_notes # ""
           /\ orders[o].status = "CONFIRMED"

\* C12: the status history of an order is the sequence of the statuses it
\* has held, oldest first: a new order has the single entry PENDING, every
\* change of status (a successful update_order_status or cancel_order)
\* appends exactly one entry carrying the new status, no operation removes,
\* reorders or rewrites an entry, and the last entry carries the current
\* status.
C12_StatusHistoryAppendOnly ==
    [][\A o \in DOMAIN orders' :
          LET new == orders'[o].status_history
          IN  /\ new # <<>>
              /\ new[Len(new)].status = orders'[o].status
              /\ IF o \notin DOMAIN orders
                 THEN Len(new) = 1 /\ new[1].status = "PENDING"
                 ELSE LET old == orders[o].status_history
                          changed ==
                              \/ orders'[o].status # orders[o].status
                              \/ /\ result'.op \in {"update_order_status",
                                                    "cancel_order"}
                                 /\ result'.success
                      IN  IF changed THEN new = Append(old, new[Len(new)])
                          ELSE new = old]_vars

\* update_order_status has just moved an order to its fourth status
C12_Witness ==
    /\ result.op = "update_order_status"
    /\ result.success
    /\ Len(orders[result.value].status_history) = 4

C15_FailedCancelChangesNothing ==
    [][result'.op = "cancel_order" /\ ~result'.success
          => /\ orders' = orders
             /\ menu_items' = menu_items
             /\ customers' = customers
             /\ cancellation_logs' = cancellation_logs]_vars

\* cancel_order has just refused a customer who does not own the order, an
\* order being prepared on which loyalty points were spent
C15_Witness ==
    /\ result.op = "cancel_order"
    /\ result.error = "Not authorized"
    /\ \E o \in DOMAIN orders :
           /\ orders[o].status = "PREPARING"
           /\ orders[o].loyalty_points_used > 0

\* C16: a cancel_order that is to succeed (made by the owner, under the
\* monthly limit, on an order that is PENDING, CONFIRMED or PREPARING) adds
\* exactly the order's loyalty_points_used to the owner's point balance,
\* whether the refund is 100% or 50%; with loyalty_points_used = 0 the
\* balance is unchanged.
C16_CancelRestoresPoints ==
    [][\A o \in DOMAIN orders :
          result'.op = "cancel_order"
          /\ cancel_order(o, orders[o].customer_id)
          /\ orders[o].status \in {"PENDING", "CONFIRMED", "PREPARING"}
          /\ RecentCancellations(orders[o].customer_id, now)
                 < MAX_CANCELLATIONS_PER_MONTH
          => customers'[orders[o].customer_id].total_points
                 = customers[orders[o].customer_id].total_points
                       + orders[o].loyalty_points_used]_vars

-----------------------------------------------------------------------------
(* Properties of the cart operations (SpecCart) *)

\* The total quantity of the cart stored under cart_id, 0 when there is none
StoredQuantity(cart_id) ==
    IF cart_id \in DOMAIN carts
    THEN TotalQuantity(cart_objs[carts[cart_id]].items, cart_items) ELSE 0

\* C21: add_to_cart with a quantity outside [1,99] fails with the
\* invalid-quantity error whatever the cart holds, and it fails with the
\* cart-full error exactly when the quantity is valid and the cart's total
\* quantity plus the added quantity exceeds 50.
C21_QuantityErrorFirst ==
    [][result'.op = "add_to_cart"
       => \A c \in KnownCartIds, q \in QuantityInputs :
             \/ /\ q < 1 \/ q > MAX_ITEM_QUANTITY
                       => result'.error = "Invalid quantity (1-99)"
                /\ result'.error = "Max 50 items"
                       <=> /\ 1 <= q /\ q <= MAX_ITEM_QUANTITY
                           /\ StoredQuantity(c) + q > MAX_CART_ITEMS
             \/ \A i \in CartItemInputs, z \in CustomizationInputs :
                    ~add_to_cart(c, i, q, z)]_vars

\* C21 as the code has it: the cart limit is checked before the quantity.
\* add_to_cart fails with the cart-full error exactly when the cart's total
\* quantity plus the requested quantity exceeds 50, whatever the quantity,
\* and with the invalid-quantity error exactly when that sum is at most 50
\* and the quantity is outside [1,99].
C21_CartLimitFirst ==
    [][result'.op = "add_to_cart"
       => \A c \in KnownCartIds, q \in QuantityInputs :
             \/ /\ result'.error = "Max 50 items"
                       <=> StoredQuantity(c) + q > MAX_CART_ITEMS
                /\ result'.error = "Invalid quantity (1-99)"
                       <=> /\ StoredQuantity(c) + q <= MAX_CART_ITEMS
                           /\ q < 1 \/ q > MAX_ITEM_QUANTITY
             \/ \A i \in CartItemInputs, z \in CustomizationInputs :
                    ~add_to_cart(c, i, q, z)]_vars

\* A quantity has just been refused as cart-full although no cart holds
\* anything: of the quantities tried only 100, an invalid one, does that
C21_Witness ==
    /\ result.op = "add_to_cart"
    /\ result.error = "Max 50 items"
    /\ \A c \in KnownCartIds : StoredQuantity(c) = 0

\* C29: a cart mutation that fails stores nothing: after a failing
\* add_to_cart, update_cart_item or remove_from_cart every stored cart has
\* the lines, quantities, totals and discount code it had, and a failing
\* add_to_cart for a key without a cart makes no cart.
C29_FailedCartMutationStoresNothing ==
    [][/\ result'.op \in {"add_to_cart", "update_cart_item", "remove_from_cart"}
       /\ ~result'.success
       => /\ carts' = carts
          /\ cart_objs' = cart_objs
          /\ cart_items' = cart_items]_vars

\* add_to_cart has just been refused for an item that is in no catalog,
\* while no cart is stored
C29_Witness ==
    /\ result.op = "add_to_cart"
    /\ result.error = "Item not found"
    /\ carts = <<>>

\* The lines of the cart stored under cart_id that have the item id and
\* the customization add_to_cart is called with, a call without
\* customization asking for ItemCustomization()
LinesWithKey(cart_id, item_id, customization) ==
    IF cart_id \notin DOMAIN carts THEN {}
    ELSE {l \in Range(cart_objs[carts[cart_id]].items) :
             /\ cart_items[l].menu_item_id = item_id
             /\ _same_customization(
                    cart_items[l].customization,
                    IF customization = <<>> THEN <<ItemCustomization>>
                    ELSE customization)}

\* C28: add_to_cart of an item and customization that a line of the cart
\* already has adds the quantity to that line and makes no new line; when
\* the sum would exceed 99 it fails, and the line keeps its quantity and
\* its line total.
C28_SameKeyAddsToLine ==
    [][result'.op = "add_to_cart"
       => \A c \in KnownCartIds, i \in CartItemInputs, q \in QuantityInputs,
             z \in CustomizationInputs :
             \/ LET same == LinesWithKey(c, i, z)
                IN  same # {}
                    => IF result'.success
                       THEN /\ cart_objs'[carts'[c]].items
                                  = cart_objs[carts[c]].items
                            /\ \E l \in same :
                                   /\ cart_items'[l].quantity
                                          = cart_items[l].quantity + q
                                   /\ cart_items'[l].quantity <= MAX_ITEM_QUANTITY
                       ELSE \A l \in same : cart_items'[l] = cart_items[l]
             \/ ~add_to_cart(c, i, q, z)]_vars

-----------------------------------------------------------------------------
(* Properties of update_cart_item (SpecPlace) *)

\* C30: update_cart_item on a cart fails with the line-not-found error when
\* the line id is not in the cart, and fails when the new quantity exceeds
\* the stock the catalog has of the line's item; when it succeeds the line
\* has the new quantity and the cart's totals are recomputed.
C30_UpdateCartItem ==
    [][result'.op = "update_cart_item"
       => \A c \in CartIds \cap DOMAIN carts, l \in LineIds :
             \/ LET q == MAX_ITEM_QUANTITY
                    held == l \in Range(cart_objs[carts[c]].items)
                IN  /\ ~held => /\ ~result'.success
                                /\ result'.error = "Item not in cart"
                    /\ /\ held
                       /\ cart_items[l].menu_item_id \in DOMAIN menu_items
                       /\ q > menu_items[cart_items[l].menu_item_id].stock_quantity
                       => ~result'.success
                    /\ result'.success
                       => LET cart == cart_objs'[carts'[c]]
                          IN  /\ cart_items'[l].quantity = q
                              /\ cart_items'[l].line_total
                                     = cart_items'[l].unit_price * q
                              /\ cart.subtotal = Subtotal(cart.items, cart_items')
                              /\ TaxOnDiscounted(cart)
                              /\ TotalMatchesParts(cart)
             \/ ~update_cart_item(c, l, <<MAX_ITEM_QUANTITY>>)]_vars

\* update_cart_item has just refused a quantity for lack of stock
C30_Witness ==
    /\ result.op = "update_cart_item"
    /\ result.error = "Only N available"

-----------------------------------------------------------------------------
(* Properties of merging and of line totals (SpecMerge) *)

\* Two CartItem objects with the same item id and the same customization
SameKey(l1, l2) ==
    /\ cart_items[l1].menu_item_id = cart_items[l2].menu_item_id
    /\ _same_customization(cart_items[l1].customization,
                           <<cart_items[l2].customization>>)

\* The quantity q of customer line c after the guest lines from the i-th on
\* have been added to it by key, each sum capped at 99
RECURSIVE MergedByKey(_, _, _, _)
MergedByKey(c, guest_items, i, q) ==
    IF i > Len(guest_items) THEN q
    ELSE MergedByKey(c, guest_items, i + 1,
                     IF SameKey(c, guest_items[i])
                     THEN Min(q + cart_items[guest_items[i]].quantity,
                              MAX_ITEM_QUANTITY)
                     ELSE q)

\* C22: merge_carts of two carts that both exist combines the lines by the
\* key (item id, customization): a guest line is added to a customer line
\* only when both match, the merged quantity being min(sum, 99); a guest
\* line whose key no customer line has becomes a line of the customer cart
\* with its own quantity; and the guest cart is no longer stored.
C22_MergeByItemAndCustomization ==
    [][/\ result'.op = "merge_carts"
       /\ "guest" \in DOMAIN carts /\ "cust" \in DOMAIN carts
       /\ carts["guest"] # carts["cust"]
       /\ merge_carts("guest", "cust")
       => LET G == cart_objs[carts["guest"]].items
              C == cart_objs[carts["cust"]].items
          IN  /\ "guest" \notin DOMAIN carts'
              /\ "cust" \in DOMAIN carts'
              /\ \A c \in Range(C) :
                     /\ c \in Range(cart_objs'[carts'["cust"]].items)
                     /\ cart_items'[c].quantity
                            = MergedByKey(c, G, 1, cart_items[c].quantity)
              /\ \A g \in Range(G) :
                     (\A c \in Range(C) : ~SameKey(c, g))
                     => /\ g \in Range(cart_objs'[carts'["cust"]].items)
                        /\ cart_items'[g].quantity = cart_items[g].quantity]_vars

\* C23: merge_carts without a guest cart changes nothing and succeeds; with
\* a guest cart and no customer cart it re-keys the guest cart: afterwards
\* the cart is stored under the customer cart id and no cart is stored
\* under the guest cart id.
C23_AbsentCartMerge ==
    [][result'.op = "merge_carts" /\ merge_carts("guest", "cust")
       => IF "guest" \notin DOMAIN carts
          THEN /\ result'.success
               /\ carts' = carts
               /\ cart_objs' = cart_objs
               /\ cart_items' = cart_items
          ELSE "cust" \notin DOMAIN carts
               => /\ result'.success
                  /\ "cust" \in DOMAIN carts'
                  /\ cart_objs'[carts'["cust"]]
                         = [cart_objs[carts["guest"]] EXCEPT !.id = "cust"]
                  /\ "guest" \notin DOMAIN carts']_vars

\* C27: every line of every cart has line_total = unit_price x quantity,
\* also after add_to_cart has added to an existing line of an item whose
\* catalog price changed since the line was made.
C27_LineTotalIsPriceTimesQuantity ==
    \A k \in DOMAIN carts : \A l \in Range(cart_objs[carts[k]].items) :
        cart_items[l].line_total = cart_items[l].unit_price * cart_items[l].quantity

-----------------------------------------------------------------------------
(* Properties of scheduled orders (SpecSchedule) *)

\* Every line of the cart stored under cart_id is of an item whose
\* availability schedule, if it has one, covers the time t
LinesAvailableAt(cart_id, t) ==
    \A l \in Range(cart_objs[carts[cart_id]].items) :
        LET i == cart_items[l].menu_item_id
        IN  i \in DOMAIN menu_items /\ menu_items[i].availability_schedule # {}
            => \E x \in menu_items[i].availability_schedule :
                   /\ x.day_of_week = WeekdayOf(t)
                   /\ x.start_time <= TimeOfDay(t)
                   /\ TimeOfDay(t) <= x.end_time

\* C24: schedule_order succeeds only if the requested time lies between
\* now + 1 hour and now + 7 days, its hour lies in [11,23), every line of
\* the cart is available at that time and all the checks of place_order
\* pass; the order it stores has is_scheduled and scheduled_for =
\* estimated_delivery_time = the requested time; when it fails no order is
\* created and no stock is reserved.
C24_ScheduledOrder ==
    [][result'.op = "schedule_order"
       => \A a \in AddressInputs, t \in FutureTimeInputs :
             \/ IF result'.success
                THEN /\ now + 60 <= t /\ t <= now + 7 * 1440
                     /\ OPENING_HOUR <= HourOf(t) /\ HourOf(t) < CLOSING_HOUR
                     /\ SessionCartId \in DOMAIN carts
                     /\ LinesAvailableAt(SessionCartId, t)
                     /\ place_order_error(SessionCartId, a) = "None"
                     /\ result'.value \in DOMAIN orders' \ DOMAIN orders
                     /\ orders'[result'.value].is_scheduled
                     /\ orders'[result'.value].scheduled_for = t
                     /\ orders'[result'.value].estimated_delivery_time = t
                ELSE orders' = orders /\ menu_items' = menu_items
             \/ ~schedule_order(SessionCartId, "c1", a, t)]_vars

\* An order has just been scheduled for a time the item's schedule covers
C24_Witness ==
    /\ result.op = "schedule_order"
    /\ result.success
    /\ menu_items["a"].availability_schedule # {}
    /\ orders[result.value].is_scheduled

-----------------------------------------------------------------------------
(* Properties of reorder (SpecReorder) *)

\* The line l of an order is of an item that exists, is available and has
\* the line's quantity in stock
LineOrderable(l) ==
    LET i == cart_items[l].menu_item_id
    IN  /\ i \in DOMAIN menu_items
        /\ menu_items[i].is_available
        /\ menu_items[i].stock_quantity >= cart_items[l].quantity

\* The cart reorder has made of order o for customer u in this step: its
\* lines are the orderable lines of o at the catalog's prices, its totals
\* are those of its lines, and the lines left out are the ones returned
ReorderedCart(o, u, k) ==
    LET cart == cart_objs'[carts'[k]]
        carried == SelectSeq(orders[o].items, LineOrderable)
        skipped == SelectSeq(orders[o].items, LAMBDA l : ~LineOrderable(l))
    IN  /\ cart.customer_id = u
        /\ Len(cart.items) = Len(carried)
        /\ \A i \in DOMAIN carried :
               LET old == cart_items[carried[i]]
                   new == cart_items'[cart.items[i]]
                   price == _calculate_item_price(menu_items[old.menu_item_id],
                                                  <<old.customization>>)
               IN  /\ new.menu_item_id = old.menu_item_id
                   /\ new.quantity = old.quantity
                   /\ new.customization = old.customization
                   /\ new.unit_price = price
                   /\ new.line_total = price * old.quantity
        /\ cart.subtotal = Subtotal(cart.items, cart_items')
        /\ cart.discount_amount = 0
        /\ TaxOnDiscounted(cart)
        /\ TotalMatchesParts(cart)
        /\ result'.report
               = [i \in DOMAIN skipped |-> cart_items[skipped[i]].menu_item_id]

\* C25: reorder never changes the order it copies, the stock of any item or
\* a cart that exists; it succeeds exactly when the caller owns the order
\* and at least one line of it is of an item that exists, is available and
\* has the line's quantity in stock; the new cart then holds exactly those
\* lines at the catalog's current prices, with its totals computed from
\* them, and every line left out is reported.
C25_Reorder ==
    [][result'.op = "reorder"
       => \A o \in OrderIds, u \in CustomerIds :
             \/ /\ orders' = orders
                /\ menu_items' = menu_items
                /\ \A l \in DOMAIN cart_items :
                       l \in DOMAIN cart_items' /\ cart_items'[l] = cart_items[l]
                /\ \A k \in DOMAIN carts :
                       /\ k \in DOMAIN carts' /\ carts'[k] = carts[k]
                       /\ cart_objs'[carts[k]] = cart_objs[carts[k]]
                /\ result'.success
                       <=> /\ o \in DOMAIN orders
                           /\ orders[o].customer_id = u
                           /\ \E l \in Range(orders[o].items) : LineOrderable(l)
                /\ result'.success
                       => \E k \in DOMAIN carts' \ DOMAIN carts :
                              ReorderedCart(o, u, k)
             \/ ~reorder(o, u)]_vars

\* A reorder has just carried one line over at a price that has changed
\* since the order, and has reported the line it left out
C25_Witness ==
    /\ result.op = "reorder"
    /\ result.success
    /\ result.report # <<>>
    /\ \E k \in ReorderCartIds \cap DOMAIN carts, o \in DOMAIN orders :
           \E l \in Range(cart_objs[carts[k]].items), m \in Range(orders[o].items) :
               /\ cart_items[l].menu_item_id = cart_items[m].menu_item_id
               /\ cart_items[l].unit_price # cart_items[m].unit_price

-----------------------------------------------------------------------------
(* Properties of a cart whose discount code is switched off (SpecDiscount) *)

\* The discount code attached to a cart is not in the store, or is inactive
CodeGone(cart) ==
    /\ cart.discount_code # "None"
    /\ \/ cart.discount_code \notin DOMAIN discount_codes
       \/ ~discount_codes[cart.discount_code].is_active

\* C26: a recomputation of a cart's totals never fails; when the code
\* attached to the cart is unknown or inactive at that time, the same step
\* takes the code off the cart and sets the discount amount to zero, and
\* the tax and the total are those of a zero discount.
C26_GoneCodeDegradesToZero ==
    [][/\ \A r \in DOMAIN cart_objs :
             _recalculate_cart(cart_objs[r], cart_items) # {}
       /\ /\ result'.op \in RecomputingOperations
          /\ result'.success
          /\ SessionCartId \in DOMAIN carts
          /\ CodeGone(cart_objs[carts[SessionCartId]])
          => LET cart == cart_objs'[carts'[SessionCartId]]
             IN  /\ cart.discount_code = "None"
                 /\ cart.discount_amount = 0
                 /\ cart.tax_amount \in Round2(cart.subtotal * VAT_RATE, 100)
                 /\ cart.total \in CartTotal(cart.subtotal, 0, cart.tax_amount,
                                             cart.delivery_fee, cart.tip_amount)]_vars

\* The code attached to the session cart has just been switched off: the
\* cart has lines, and its next recomputation finds the code inactive
C26_Witness ==
    /\ result.op = "save_discount_code"
    /\ SessionCartId \in DOMAIN carts
    /\ CodeGone(cart_objs[carts[SessionCartId]])
    /\ cart_objs[carts[SessionCartId]].items # <<>>
    /\ cart_objs[carts[SessionCartId]].discount_amount > 0

-----------------------------------------------------------------------------
(* Properties of the stock over the life of an order (SpecLifecycle) *)

\* The total quantity of the lines of order os[o] that reference item i
QuantityOnOrder(os, lines, o, i) ==
    SumSeq([k \in DOMAIN os[o].items |->
               IF lines[os[o].items[k]].menu_item_id = i
               THEN lines[os[o].items[k]].quantity ELSE 0])

\* The orders a step places and the orders a step's cancel_order cancels
PlacedNow == DOMAIN orders' \ DOMAIN orders
CancelledNow ==
    {o \in DOMAIN orders :
        /\ result'.op = "cancel_order" /\ result'.success
        /\ orders[o].status # "CANCELLED"
        /\ orders'[o].status = "CANCELLED"}

-----------------------------------------------------------------------------
(* Properties of status changes made at the same time (SpecRace) *)

\* Each entry of a status history is a transition the table allows from the
\* entry before it
LegalPath(history) ==
    \A k \in 1..(Len(history) - 1) :
        history[k + 1].status \in valid_transitions(history[k].status)

\* C32: status changes of one order that run at the same time behave as if
\* each read the status, checked the transition and wrote in one step: a
\* call writes only while the order still has the status its check read (of
\* two calls that checked the same status one succeeds), and every status
\* history stays a path of the transition table.
C32_StatusChangeAtomic ==
    [][/\ \A th \in DOMAIN calls \ DOMAIN calls' :
             orders[calls[th].order_id].status = calls[th].status
       /\ \A o \in DOMAIN orders' : LegalPath(orders'[o].status_history)]_vars

-----------------------------------------------------------------------------
(* Properties of modify_scheduled_order (SpecModify) *)

\* C33: modify_scheduled_order succeeds only when the caller owns the order,
\* the order is scheduled and now is no later than 30 minutes before
\* scheduled_for; called by the owner of a scheduled order after that, it
\* fails with the cutoff error and leaves scheduled_for and the delivery
\* estimate as they were.
C33_ModifyUntilCutoff ==
    [][result'.op = "modify_scheduled_order"
       => \A o \in OrderIds, u \in CustomerIds :
             \/ /\ result'.success
                   => /\ o \in DOMAIN orders
                      /\ orders[o].customer_id = u
                      /\ orders[o].is_scheduled
                      /\ now <= orders[o].scheduled_for - 30
                /\ /\ o \in DOMAIN orders
                   /\ orders[o].customer_id = u
                   /\ orders[o].is_scheduled
                   /\ now > orders[o].scheduled_for - 30
                   => /\ ~result'.success
                      /\ result'.error = "Modification cutoff passed"
                      /\ orders'[o].scheduled_for = orders[o].scheduled_for
                      /\ orders'[o].estimated_delivery_time
                             = orders[o].estimated_delivery_time
             \/ \A t \in ModifyTimeInputs : ~modify_scheduled_order(o, u, t)]_vars

\* modify_scheduled_order has just refused an order that is due in less than
\* 30 minutes and not yet overdue
C33_Witness ==
    /\ result.op = "modify_scheduled_order"
    /\ result.error = "Modification cutoff passed"
    /\ \E o \in DOMAIN orders :
           /\ orders[o].is_scheduled
           /\ orders[o].scheduled_for - 30 < now
           /\ now <= orders[o].scheduled_for
    /\ \A o \in DOMAIN orders :
           orders[o].is_scheduled => orders[o].scheduled_for >= now

-----------------------------------------------------------------------------
(* Properties of the delivery estimate of an order (SpecLifecycle) *)

\* The orders whose delivery estimate a step computes: the order it places
\* and the order it moves to CONFIRMED or PREPARING
EstimatedNow ==
    {o \in DOMAIN orders' :
        \/ o \notin DOMAIN orders
        \/ /\ orders'[o].status # orders[o].status
           /\ orders'[o].status \in {"CONFIRMED", "PREPARING"}}

\* C34: the delivery estimate that place_order and the transitions into
\* CONFIRMED and PREPARING store on an order is the time of the call plus
\* the base preparation time for the order's total quantity (15 minutes up
\* to 3 items, 25 up to 6, 35 up to 10, 45 above) plus the travel time of
\* the delivery zone.
C34_EstimateUsesStepFunction ==
    [][\A o \in EstimatedNow :
          orders'[o].estimated_delivery_time =
              now' + base_prep_time(TotalQuantity(orders'[o].items, cart_items'))
                   + travel_time(orders'[o].delivery_address)]_vars

-----------------------------------------------------------------------------
(* Properties of the stock of the catalog (SpecStock) *)

\* C35: the stock quantity of every catalog item is at least 0.
C35_StockNeverNegative ==
    \A i \in DOMAIN menu_items : menu_items[i].stock_quantity >= 0

-----------------------------------------------------------------------------
(* Properties of the stock while orders change status (SpecLifecycle) *)

\* The quantity of item i on the orders that are not CANCELLED
QuantityOnLiveOrders(i) ==
    SumSeq([o \in 1..MaxOrders |->
               IF o \in DOMAIN orders /\ orders[o].status # "CANCELLED"
               THEN QuantityOnOrder(orders, cart_items, o, i) ELSE 0])

\* C36: for every catalog item, the stock plus the quantity of the item on
\* the orders that are not CANCELLED is the stock the item started with,
\* whichever of update_order_status and cancel_order cancelled an order.
C36_StockConserved ==
    \A i \in ItemIds :
        menu_items[i].stock_quantity + QuantityOnLiveOrders(i)
            = InitialMenu[i].stock_quantity

\* C37: a cancel_order that is to succeed (by the owner, on the order that
\* place_order has just stored) puts every ordered item back as it was
\* before the placement: the stock is up by the ordered quantity and the
\* item is available, as it had to be to be ordered.
C37_PlaceThenCancelRestores ==
    [][/\ result.op = "place_order" /\ result.success
       /\ result'.op = "cancel_order"
       /\ cancel_order(result.value, orders[result.value].customer_id)
       => \A i \in ItemIds :
             LET q == QuantityOnOrder(orders, cart_items, result.value, i)
             IN  q > 0 => /\ menu_items'[i].stock_quantity
                                = menu_items[i].stock_quantity + q
                          /\ menu_items'[i].is_available]_vars

-----------------------------------------------------------------------------
(* Properties of the loyalty balance (SpecOrder) *)

-----------------------------------------------------------------------------
(* Properties of the amounts of a discounted cart (SpecCode) *)

\* C39: the discount of every stored cart is at least 0 and at most the
\* subtotal, and the tax and the total are at least 0.
C39_DiscountWithinSubtotal ==
    \A c \in DOMAIN carts :
        LET cart == cart_objs[carts[c]]
        IN  /\ 0 <= cart.discount_amount
            /\ cart.discount_amount <= cart.subtotal
            /\ cart.tax_amount >= 0
            /\ cart.total >= 0

-----------------------------------------------------------------------------
(* Properties of add_to_cart and the stock (SpecStock) *)

\* C40: after a successful add_to_cart the line it created or added to has
\* a quantity of at most the stock of its item.
C40_LineWithinStock ==
    [][result'.op = "add_to_cart" /\ result'.success
       => \A l \in DOMAIN cart_items' :
             \/ /\ l \in DOMAIN cart_items
                /\ cart_items'[l].quantity = cart_items[l].quantity
             \/ cart_items'[l].quantity
                    <= menu_items'[cart_items'[l].menu_item_id].stock_quantity]_vars

=============================================================================
